---- MODULE Spec2Model ----
(***************************************************************************)
(* Vargas: SIMD Smith-Waterman alignment of read batches to a variation    *)
(* graph.  The module models the aligner AlignerT of alignment.h as a      *)
(* state machine: construction (set_scores, _get_bias), read packing       *)
(* (_package_reads), the graph traversal of align_into (_get_seed,         *)
(* _fill_node, _fill_cell, _fill_cell_finish), the final commit of the     *)
(* waiting sub-max and the strand merge.                                   *)
(***************************************************************************)
EXTENDS Integers, Sequences, FiniteSets, TLC

(***************************************************************************)
(* Bounds of the model.                                                    *)
(***************************************************************************)
Lanes == 2          \* reads per SIMD vector (read_capacity), scaled down
MaxReadLen == 2     \* largest _read_len an engine is aligned with
MaxRefLen == 6      \* longest linear reference
MaxCalls == 2       \* align_into calls on one object
MaxBatchRef == 4    \* longest reference of a batch that fills more than one group
MaxSeqRef == 2      \* longest reference of the calls that follow one another on one object
AlleleLen == 2      \* length of the alleles and of the tail of a bubble
MaxSplitRef == 4    \* longest linear reference that is cut in two
MaxPos == 14        \* largest linear position that is resolved to a contig
MaxThreads == 2     \* most threads of the pool
MaxTasks == 3       \* longest task list
MaxBatch == 2       \* most records a task produces
BuildRefLen == 6    \* length of the reference a graph is built from
MaxDerive == 2      \* most derivations in a row
MaxNodeId == 2      \* greatest id of a node that callers add to a graph
MaxEdges == 3       \* most edges that callers add to a graph
MaxFarRef == 7      \* length of the references on which scores recur far apart
MaxModeRef == 3     \* longest reference of the MSONLY and MAXONLY engines

(***************************************************************************)
(* rg::Base: A, C, G, T, N are the indexes 0..4 of a query profile entry.  *)
(***************************************************************************)
BaseA == 0
BaseC == 1
BaseG == 2
BaseT == 3
BaseN == 4
Bases4 == {BaseA, BaseC, BaseG, BaseT}

complement_b(b) ==
    CASE b = BaseA -> BaseT
      [] b = BaseT -> BaseA
      [] b = BaseC -> BaseG
      [] b = BaseG -> BaseC
      [] OTHER -> BaseN

(***************************************************************************)
(* Cell arithmetic: signed lanes of 8 or 16 bits, saturating add and sub   *)
(* (_mm_adds_epi8 / _mm_subs_epi8), wrap-around on narrowing assignment.   *)
(***************************************************************************)
Pow2(n) == IF n = 8 THEN 256 ELSE 65536
NativeMin(w) == 0 - (Pow2(w) \div 2)
NativeMax(w) == (Pow2(w) \div 2) - 1
Max2(a, b) == IF a >= b THEN a ELSE b
Min2(a, b) == IF a <= b THEN a ELSE b
Sat(w, x) == IF x > NativeMax(w) THEN NativeMax(w)
             ELSE IF x < NativeMin(w) THEN NativeMin(w) ELSE x
SatAdd(w, a, b) == Sat(w, a + b)
SatSub(w, a, b) == Sat(w, a - b)
\* conversion of an int to native_t (int8_t / int16_t): modulo 2^w
Narrow(w, x) == ((x + Pow2(w) \div 2) % Pow2(w)) - (Pow2(w) \div 2)
LaneSet == 0 .. (Lanes - 1)
Broadcast(x) == [l \in LaneSet |-> x]


(***************************************************************************)
(* ScoreProfile: match bonus, mismatch penalty range, gap penalties of the *)
(* read and of the reference, ambiguous base penalty.  Fields are uint8_t. *)
(***************************************************************************)
ScoreProfile(ma, mmin, mmax, rdo, rde, rfo, rfe, amb) ==
    [match |-> ma, mismatch_min |-> mmin, mismatch_max |-> mmax,
     read_gopen |-> rdo, read_gext |-> rde, ref_gopen |-> rfo, ref_gext |-> rfe,
     ambig |-> amb]

\* ScoreProfile::penalty: mismatch penalty of a base of Phred quality q
penalty(prof, q) ==
    prof.mismatch_min + (((prof.mismatch_max - prof.mismatch_min) * Min2(q, 40)) \div 40)

(***************************************************************************)
(* _get_bias: the bias of the score matrix, or "throw" when read_len*match *)
(* exceeds the width of the cell.  b is an unsigned int in the code: a     *)
(* negative difference wraps modulo 2^32 and is then narrowed to native_t, *)
(* which is the narrowing of the difference itself.                        *)
(***************************************************************************)
\* the range test made against the range of the 16 bit cell whatever the cell
get_bias_throws_wide(w, read_len, match) ==
    read_len * match > NativeMax(16) - NativeMin(16)

get_bias_throws(w, read_len, match) ==
    read_len * match > NativeMax(w) - NativeMin(w)

get_bias(w, ete, read_len, match) ==
    IF ~ete THEN NativeMin(w)
    ELSE Narrow(w, NativeMax(w) - (read_len * match))

\* the warning of _get_bias (end-to-end only); b compared as unsigned int
get_bias_warns(w, ete, read_len, match, mismatch, gopen, gext) ==
    LET d == NativeMax(w) - (read_len * match) IN
    /\ ete
    /\ d >= 0
    /\ (gopen + (gext * (read_len - 1)) > d \/ read_len * mismatch > d)

(***************************************************************************)
(* The aligner object.  SIMD vectors are functions of the lane; _S, _Dc,   *)
(* _Ic are indexed by the row 0..read_len, the query profile by the row    *)
(* 0..read_len-1 and the reference base.  The vectors of a new object are  *)
(* value-initialised.                                                      *)
(***************************************************************************)
Rows0(read_len) == 0 .. read_len
QRows(read_len) == 0 .. (read_len - 1)

\* set_scores, on an object whose _get_bias did not throw
set_scores(e, prof) ==
    LET b == get_bias(e.width, e.ete, e.read_len, prof.match) IN
    [e EXCEPT !.prof = prof,
              !.bias = b,
              !.Dc = [e.Dc EXCEPT ![0] = Broadcast(NativeMin(e.width))],
              !.S = [e.S EXCEPT ![0] = Broadcast(b)],
              !.gap_extend_vec_rd = Broadcast(Narrow(e.width, prof.read_gext)),
              !.gap_extend_vec_ref = Broadcast(Narrow(e.width, prof.ref_gext)),
              !.gap_open_extend_vec_rd = Broadcast(Narrow(e.width, prof.read_gopen + prof.read_gext)),
              !.gap_open_extend_vec_ref = Broadcast(Narrow(e.width, prof.ref_gopen + prof.ref_gext))]

\* AlignerT(read_len, prof) up to the call of set_scores
NewAligner(w, ete, msonly, maxonly, read_len) ==
    [width |-> w, ete |-> ete, msonly |-> msonly, maxonly |-> maxonly,
     read_len |-> read_len,
     prof |-> ScoreProfile(0, 0, 0, 0, 0, 0, 0, 0),
     bias |-> 0,
     S |-> [r \in Rows0(read_len) |-> Broadcast(0)],
     Dc |-> [r \in Rows0(read_len) |-> Broadcast(0)],
     Ic |-> [r \in Rows0(read_len) |-> Broadcast(0)],
     Sd |-> Broadcast(0),
     max_score |-> Broadcast(0),
     sub_score |-> Broadcast(0),
     waiting_score |-> Broadcast(0),
     gap_extend_vec_rd |-> Broadcast(0),
     gap_extend_vec_ref |-> Broadcast(0),
     gap_open_extend_vec_rd |-> Broadcast(0),
     gap_open_extend_vec_ref |-> Broadcast(0),
     max_pos_list |-> <<>>,
     sub_pos_list |-> <<>>,
     query_prof |-> [i \in QRows(read_len) |-> [b \in 0 .. 4 |-> Broadcast(0)]]]

(***************************************************************************)
(* AlignmentGroup::_package_reads: the reads vstart..vend-1 of the batch   *)
(* go to the lanes 0..vend-vstart-1 (vstart is a multiple of Lanes in      *)
(* align_into).  A read shorter than read_len occupies the last rows; the  *)
(* rows before it are zeroed for the bases A, C, G, T at lane index r, the *)
(* index of the read in the batch, not qidx, its lane.  For r >= Lanes     *)
(* that store is out of the bounds of the vector: with flat = TRUE it      *)
(* lands where the contiguous layout of std::array<simd_t, 5> puts it,     *)
(* r \div Lanes entries further in lane r % Lanes; with flat = FALSE it    *)
(* changes nothing of the query profile.                                   *)
(***************************************************************************)
\* the substitution score stored for read base rdb, quality known or not, against b
SubstScore(w, prof, rdb, b, hasq, q) ==
    IF b = BaseN THEN Narrow(w, 0 - prof.ambig)
    ELSE IF rdb = BaseN THEN Narrow(w, 0 - prof.ambig)
    ELSE IF rdb = b THEN Narrow(w, prof.match)
    ELSE IF ~hasq THEN Narrow(w, 0 - prof.mismatch_max)
    ELSE Narrow(w, 0 - penalty(prof, q))

\* is the entry (i, b) of a lane hit by a zero store of the padding loop of read r
PadZeroed(i, b, r, pos, flat) ==
    LET shift == r \div Lanes IN
    IF shift = 0 THEN i < pos /\ b \in Bases4
    ELSE /\ flat
         /\ \E i2 \in 0 .. (pos - 1) : \E b2 \in Bases4 :
                (i2 * 5) + b2 + shift = (i * 5) + b

package_reads(e, reads, quals, revcomp, vstart, vend, flat) ==
    LET w == e.width
        rl == e.read_len
        Cell(i, b, l) ==
            LET r == vstart + l IN
            IF r >= vend THEN e.query_prof[i][b][l]
            ELSE
              LET rd == reads[r + 1]
                  m == Len(rd)
                  pos == rl - m
                  k == i - pos
                  p == IF revcomp THEN m - 1 - k ELSE k
                  hasq == ~(quals = <<>> \/ quals[r + 1] = <<>>)
              IN  IF i >= pos
                  THEN SubstScore(w, e.prof,
                                  IF revcomp THEN complement_b(rd[p + 1]) ELSE rd[p + 1],
                                  b, hasq, IF hasq THEN quals[r + 1][p + 1] ELSE 0)
                  ELSE IF PadZeroed(i, b, r, pos, flat) THEN 0
                  ELSE e.query_prof[i][b][l]
    IN [e EXCEPT !.query_prof =
            [i \in QRows(rl) |-> [b \in 0 .. 4 |-> [l \in LaneSet |-> Cell(i, b, l)]]]]

(***************************************************************************)
(* Seeds: the last columns of S and of Ic of a node.                       *)
(***************************************************************************)
NewSeed(read_len) ==
    [S_col |-> [r \in Rows0(read_len) |-> Broadcast(0)],
     I_col |-> [r \in Rows0(read_len) |-> Broadcast(0)]]

\* _seed_matrix: the seed of a node without predecessors
seed_matrix(e) ==
    LET col == [i \in Rows0(e.read_len) |->
                  IF ~e.ete \/ i = 0 THEN Broadcast(e.bias)
                  ELSE LET v == e.bias - e.prof.ref_gopen - (i * e.prof.ref_gext)
                       IN Broadcast(IF v < NativeMin(e.width) THEN NativeMin(e.width) ELSE v)]
    IN [S_col |-> col, I_col |-> col]

VMax(a, b) == [l \in LaneSet |-> Max2(a[l], b[l])]

\* the column S_col or I_col of a seed
SeedCol(sd, which) == IF which = "S" THEN sd.S_col ELSE sd.I_col

RECURSIVE SeedFold(_, _, _, _, _, _)
\* the inner loop of _get_seed over prev_ids[p..] for row i of one of the columns
SeedFold(acc, prev_ids, p, seed_map, which, i) ==
    IF p > Len(prev_ids) THEN acc
    ELSE SeedFold(VMax(acc, SeedCol(seed_map[prev_ids[p]], which)[i]),
                  prev_ids, p + 1, seed_map, which, i)

\* seed_map.at(id) throws for an id that has no seed
get_seed_throws(prev_ids, seed_map) ==
    \E p \in 1 .. Len(prev_ids) : prev_ids[p] \notin DOMAIN seed_map

\* _get_seed: row 0 of the seed object is left as it is when there are predecessors
get_seed(e, prev_ids, seed_map, seed) ==
    IF prev_ids = <<>> THEN seed_matrix(e)
    ELSE
      [S_col |-> [i \in Rows0(e.read_len) |->
                    IF i = 0 THEN seed.S_col[0]
                    ELSE SeedFold(seed_map[prev_ids[1]].S_col[i], prev_ids, 2, seed_map, "S", i)],
       I_col |-> [i \in Rows0(e.read_len) |->
                    IF i = 0 THEN seed.I_col[0]
                    ELSE SeedFold(seed_map[prev_ids[1]].I_col[i], prev_ids, 2, seed_map, "I", i)]]

(***************************************************************************)
(* _fill_cell without its call of _fill_cell_finish: one cell of the       *)
(* column of reference base ref, for all lanes.                            *)
(***************************************************************************)
fill_cell(e, ref, row) ==
    LET w == e.width
        prf == e.query_prof[row - 1]
        Dc_row == [l \in LaneSet |->
                     Max2(SatSub(w, e.Dc[row - 1][l], e.gap_extend_vec_ref[l]),
                          SatSub(w, e.S[row - 1][l], e.gap_open_extend_vec_ref[l]))]
        Ic_row == [l \in LaneSet |->
                     Max2(SatSub(w, e.Ic[row][l], e.gap_extend_vec_rd[l]),
                          SatSub(w, e.S[row][l], e.gap_open_extend_vec_rd[l]))]
        sr == [l \in LaneSet |-> SatAdd(w, e.Sd[l], prf[ref][l])]
    IN [e EXCEPT !.Dc[row] = Dc_row,
                 !.Ic[row] = Ic_row,
                 !.Sd = e.S[row],
                 !.S[row] = [l \in LaneSet |-> Max2(Ic_row[l], Max2(Dc_row[l], sr[l]))]]

(***************************************************************************)
(* _fill_cell_finish for one lane.  k is the book-keeping of the lane:     *)
(* the lane of _max_score, _sub_score, _waiting_score, its two position    *)
(* lists and its entries of the position arrays of the results.  s is the  *)
(* lane of _S[row].  The blocks run in the order of the code, each on the  *)
(* values the blocks before it left.                                       *)
(***************************************************************************)
Back(lst) == lst[Len(lst)]
PopBack(lst) == SubSeq(lst, 1, Len(lst) - 1)
\* "delete leftmost ... if it was within a read-length": drop the tail when it is near curr_pos
PopNear(lst, curr_pos, rl) ==
    IF lst # <<>> /\ Back(lst) + (2 * rl) > curr_pos THEN PopBack(lst) ELSE lst

\* repeat max score (default mode)
RepeatMax(k, s, curr_pos, rl) ==
    IF s = k.max_score
    THEN [k EXCEPT !.max_pos_list = IF curr_pos > k.max_last_pos + (2 * rl)
                                    THEN Append(@, curr_pos) ELSE @,
                   !.max_last_pos = curr_pos,
                   !.waiting_pos = 0,
                   !.waiting_score = k.sub_score,
                   !.sub_pos_list = PopNear(@, curr_pos, rl)]
    ELSE k

\* new max score (default mode)
NewMax(k, s, curr_pos, rl) ==
    IF s > k.max_score
    THEN LET mpl == PopNear(k.max_pos_list, curr_pos, rl)
             demote == mpl # <<>>
             sub == IF demote THEN k.max_score ELSE k.sub_score
         IN [k EXCEPT !.sub_score = sub,
                      !.sub_last_pos = IF demote THEN k.max_last_pos ELSE @,
                      !.sub_pos_list = IF demote THEN mpl ELSE PopNear(@, curr_pos, rl),
                      !.waiting_pos = 0,
                      !.waiting_score = sub,
                      !.max_score = s,
                      !.max_last_pos = curr_pos,
                      !.max_pos_list = <<curr_pos>>]
    ELSE k

\* repeat waiting submax score
RepeatWaiting(k, s, curr_pos) ==
    IF s = k.waiting_score /\ k.waiting_pos > 0
    THEN [k EXCEPT !.waiting_last_pos = curr_pos]
    ELSE k

\* repeat submax score
RepeatSub(k, s, curr_pos, rl) ==
    IF s = k.sub_score
    THEN [k EXCEPT !.sub_pos_list =
                       IF /\ k.max_pos_list # <<>>
                          /\ curr_pos > Back(k.max_pos_list) + (2 * rl)
                          /\ k.sub_pos_list # <<>>
                          /\ curr_pos > Back(k.sub_pos_list) + (2 * rl)
                       THEN Append(@, curr_pos) ELSE @,
                   !.sub_last_pos = curr_pos]
    ELSE k

\* new waiting submax score
NewWaiting(k, s, curr_pos, rl) ==
    IF /\ s > k.sub_score
       /\ s < k.max_score
       /\ curr_pos > k.max_last_pos + (2 * rl)
       /\ (k.waiting_pos = 0 \/ s > k.waiting_score)
    THEN [k EXCEPT !.waiting_score = s,
                   !.waiting_pos = curr_pos,
                   !.waiting_last_pos = curr_pos]
    ELSE k

\* the commit without the distance to the last occurrence
CommitWaitingAtOnce(k, curr_pos, rl) ==
    IF /\ k.waiting_score > k.sub_score
       /\ k.waiting_pos > 0
    THEN [k EXCEPT !.sub_score = k.waiting_score,
                   !.sub_last_pos = k.waiting_last_pos,
                   !.sub_pos_list = <<k.waiting_pos>>,
                   !.waiting_pos = 0]
    ELSE k

\* commit the waiting submax once curr_pos is beyond its last occurrence
CommitWaiting(k, curr_pos, rl) ==
    IF /\ k.waiting_score > k.sub_score
       /\ k.waiting_pos > 0
       /\ curr_pos > k.waiting_last_pos + (2 * rl)
    THEN [k EXCEPT !.sub_score = k.waiting_score,
                   !.sub_last_pos = k.waiting_last_pos,
                   !.sub_pos_list = <<k.waiting_pos>>,
                   !.waiting_pos = 0]
    ELSE k

\* the MAXONLY branch: repeat max, then new max
MaxOnlyLane(k, s, curr_pos, rl) ==
    IF s = k.max_score
    THEN [k EXCEPT !.max_pos_list = IF curr_pos > k.max_last_pos + (2 * rl)
                                    THEN Append(@, curr_pos) ELSE @,
                   !.max_last_pos = curr_pos]
    ELSE IF s > k.max_score
    THEN [k EXCEPT !.max_score = s,
                   !.max_last_pos = curr_pos,
                   !.max_pos_list = <<curr_pos>>]
    ELSE k

FinishLane(k, s, curr_pos, rl, msonly, maxonly) ==
    IF msonly THEN [k EXCEPT !.max_score = Max2(s, k.max_score)]
    ELSE IF maxonly THEN MaxOnlyLane(k, s, curr_pos, rl)
    ELSE CommitWaiting(
           NewWaiting(
             RepeatSub(
               RepeatWaiting(
                 NewMax(RepeatMax(k, s, curr_pos, rl), s, curr_pos, rl),
                 s, curr_pos),
               s, curr_pos, rl),
             s, curr_pos, rl),
           curr_pos, rl)

(***************************************************************************)
(* Results: the vectors of the results packet that align_into uses.        *)
(* Results::resize keeps the entries below the new size and value-         *)
(* initialises the new ones.                                               *)
(***************************************************************************)
NewResults ==
    [max_score |-> <<>>, sub_score |-> <<>>,
     max_last_pos |-> <<>>, sub_last_pos |-> <<>>,
     waiting_pos |-> <<>>, waiting_last_pos |-> <<>>,
     max_pos_list_fwd |-> <<>>, sub_pos_list_fwd |-> <<>>,
     max_pos_list_rev |-> <<>>, sub_pos_list_rev |-> <<>>]

ResizeVec(v, n, dflt) == [i \in 0 .. (n - 1) |-> IF i \in DOMAIN v THEN v[i] ELSE dflt]

ResultsResize(al, n) ==
    [max_score |-> ResizeVec(al.max_score, n, 0),
     sub_score |-> ResizeVec(al.sub_score, n, 0),
     max_last_pos |-> ResizeVec(al.max_last_pos, n, 0),
     sub_last_pos |-> ResizeVec(al.sub_last_pos, n, 0),
     waiting_pos |-> ResizeVec(al.waiting_pos, n, 0),
     waiting_last_pos |-> ResizeVec(al.waiting_last_pos, n, 0),
     max_pos_list_fwd |-> ResizeVec(al.max_pos_list_fwd, n, <<>>),
     sub_pos_list_fwd |-> ResizeVec(al.sub_pos_list_fwd, n, <<>>),
     max_pos_list_rev |-> ResizeVec(al.max_pos_list_rev, n, <<>>),
     sub_pos_list_rev |-> ResizeVec(al.sub_pos_list_rev, n, <<>>)]

\* the book-keeping of lane l: vector lanes, position lists, and the entries
\* beg + l of the arrays that _max_last_pos, _sub_last_pos, _waiting_pos,
\* _waiting_last_pos point into
Book(e, al, beg, l) ==
    [max_score |-> e.max_score[l],
     sub_score |-> e.sub_score[l],
     waiting_score |-> e.waiting_score[l],
     max_pos_list |-> IF l \in DOMAIN e.max_pos_list THEN e.max_pos_list[l] ELSE <<>>,
     sub_pos_list |-> IF l \in DOMAIN e.sub_pos_list THEN e.sub_pos_list[l] ELSE <<>>,
     max_last_pos |-> al.max_last_pos[beg + l],
     sub_last_pos |-> al.sub_last_pos[beg + l],
     waiting_pos |-> al.waiting_pos[beg + l],
     waiting_last_pos |-> al.waiting_last_pos[beg + l]]

\* store the book-keeping kk (a function of the lane) back
PutBooks(e, al, beg, kk) ==
    LET InGroup(i) == i >= beg /\ i < beg + Lanes IN
    [e |-> [e EXCEPT !.max_score = [l \in LaneSet |-> kk[l].max_score],
                     !.sub_score = [l \in LaneSet |-> kk[l].sub_score],
                     !.waiting_score = [l \in LaneSet |-> kk[l].waiting_score],
                     !.max_pos_list = [l \in DOMAIN @ |-> kk[l].max_pos_list],
                     !.sub_pos_list = [l \in DOMAIN @ |-> kk[l].sub_pos_list]],
     al |-> [al EXCEPT
               !.max_last_pos = [i \in DOMAIN @ |-> IF InGroup(i) THEN kk[i - beg].max_last_pos ELSE @[i]],
               !.sub_last_pos = [i \in DOMAIN @ |-> IF InGroup(i) THEN kk[i - beg].sub_last_pos ELSE @[i]],
               !.waiting_pos = [i \in DOMAIN @ |-> IF InGroup(i) THEN kk[i - beg].waiting_pos ELSE @[i]],
               !.waiting_last_pos = [i \in DOMAIN @ |-> IF InGroup(i) THEN kk[i - beg].waiting_last_pos ELSE @[i]]]]

\* _fill_cell_finish(row, curr_pos) on all lanes
fill_cell_finish(e, al, beg, row, curr_pos) ==
    LET kk == [l \in LaneSet |->
                 FinishLane(Book(e, al, beg, l), e.S[row][l], curr_pos,
                            e.read_len, e.msonly, e.maxonly)]
    IN PutBooks(e, al, beg, kk)

\* the commit of a waiting submax after the traversal of a strand
FinalCommitLane(k) ==
    IF k.waiting_score > k.sub_score /\ k.max_last_pos < k.waiting_pos
    THEN [k EXCEPT !.sub_score = k.waiting_score,
                   !.sub_last_pos = k.waiting_last_pos,
                   !.sub_pos_list = <<k.waiting_pos>>]
    ELSE k

final_commit(e, al, beg) ==
    PutBooks(e, al, beg, [l \in LaneSet |-> FinalCommitLane(Book(e, al, beg, l))])

(***************************************************************************)
(* Inputs.  A graph is the sequence of its nodes in iteration order; a     *)
(* node carries its id, sequence, end position (0-indexed position of its  *)
(* last base), pinch flag and the ids of its incoming nodes.               *)
(***************************************************************************)
Node(id, sq, end_pos, pinched, incoming) ==
    [id |-> id, seq |-> sq, end_pos |-> end_pos, pinched |-> pinched, incoming |-> incoming]

SeqsOf(alphabet, lo, hi) == UNION {[1 .. n -> alphabet] : n \in lo .. hi}

RefAlphabet == {BaseA, BaseT}
ReadAlphabet == {BaseA, BaseT}

\* a single node holding sq, its first base at 1-indexed position off + 1
Linear(sq, off) == <<Node(0, sq, off + Len(sq) - 1, TRUE, <<>>)>>

\* sq cut in two consecutive nodes after its k-th base
Split2(sq, k, off) ==
    <<Node(0, SubSeq(sq, 1, k), off + k - 1, TRUE, <<>>),
      Node(1, SubSeq(sq, k + 1, Len(sq)), off + Len(sq) - 1, TRUE, <<0>>)>>

\* head -> {ref allele, alt allele} -> tail; the alleles end at the same position
Bubble(head, ref, alt, tail) ==
    <<Node(0, head, Len(head) - 1, TRUE, <<>>),
      Node(1, ref, Len(head) + Len(ref) - 1, FALSE, <<0>>),
      Node(2, alt, Len(head) + Len(ref) - 1, FALSE, <<0>>),
      Node(3, tail, Len(head) + Len(ref) + Len(tail) - 1, TRUE, <<1, 2>>)>>

Profiles ==
    {ScoreProfile(2, 2, 2, 3, 1, 3, 1, 0),      \* the default profile
     ScoreProfile(2, 1, 3, 0, 1, 1, 2, 1)}

\* the arguments of a call of align_into
AlignArgs(fam, reads, quals, graph, fwdonly) ==
    [fam |-> fam, read_group |-> reads, quals |-> quals, graph |-> graph, fwdonly |-> fwdonly]

\* one read against a linear reference, one or both strands
LinInputs(read_len) ==
    {AlignArgs("lin", <<rd>>, <<>>, Linear(sq, 0), f) :
        rd \in SeqsOf(ReadAlphabet, 1, read_len),
        sq \in SeqsOf(RefAlphabet, 1, MaxRefLen),
        f \in BOOLEAN}

\* Lanes + 1 reads, so that the last read is alone in a second group; the
\* first and the last read vary
BatchReads(read_len) == SeqsOf({BaseA}, 1, read_len) \cup {<<BaseT>>}
BatchInputs(read_len) ==
    {AlignArgs("batch",
               [k \in 1 .. (Lanes + 1) |->
                   IF k = 1 THEN a ELSE IF k = Lanes + 1 THEN c ELSE <<BaseA>>],
               <<>>, Linear(sq, 0), f) :
        a \in BatchReads(read_len), c \in BatchReads(read_len),
        sq \in SeqsOf(RefAlphabet, 1, MaxBatchRef), f \in BOOLEAN}

\* one read against a bubble, one or both strands
BubbleInputs(read_len) ==
    {AlignArgs("bubble", <<rd>>, <<>>, Bubble(<<BaseA>>, r, a, t), f) :
        rd \in SeqsOf(ReadAlphabet, 1, read_len),
        r \in SeqsOf(RefAlphabet, AlleleLen, AlleleLen),
        a \in SeqsOf(RefAlphabet, AlleleLen, AlleleLen),
        t \in SeqsOf(RefAlphabet, AlleleLen, AlleleLen),
        f \in BOOLEAN}

\* one read against a short linear reference, call after call on one
\* object; both strands on the references of one base
SeqInputs(read_len) ==
    {a \in {AlignArgs("seq", <<rd>>, <<>>, Linear(sq, 0), f) :
                rd \in SeqsOf(ReadAlphabet, 1, read_len),
                sq \in SeqsOf(RefAlphabet, 1, MaxSeqRef),
                f \in BOOLEAN} :
        a.fwdonly \/ Len(a.graph[1].seq) = 1}

\* three nodes of one base each, in iteration order; the second may be a
\* pinch point, and the incoming ids of the second and third are free
Chain(sq, pinched, inc1, inc2) ==
    <<Node(0, <<sq[1]>>, 0, FALSE, <<>>),
      Node(1, <<sq[2]>>, 1, pinched, inc1),
      Node(2, <<sq[3]>>, 2, TRUE, inc2)>>

\* one read against a chain whose incoming ids may name a node that comes
\* later or that precedes a pinch point
UnsortedInputs(read_len) ==
    {AlignArgs("unsorted", <<rd>>, <<>>, Chain(sq, p, i1, i2), f) :
        rd \in SeqsOf(ReadAlphabet, 1, read_len),
        sq \in SeqsOf(RefAlphabet, 3, 3),
        p \in BOOLEAN,
        i1 \in {<<0>>, <<2>>},
        i2 \in {<<1>>, <<0, 1>>, <<1, 0>>},
        f \in BOOLEAN}

\* the incoming ids with id a renamed to b
Renamed(incoming, a, b) == [p \in DOMAIN incoming |-> IF incoming[p] = a THEN b ELSE incoming[p]]

\* graph g with its i-th node cut in two consecutive nodes after the k-th
\* base: the first part keeps the id and the incoming ids and ends where its
\* last base lies, the second part has a new id and the first part as its
\* only incoming node, and the nodes that followed the whole follow the
\* second part
SplitAt(g, i, k) ==
    LET n == g[i]
        first == Node(n.id, SubSeq(n.seq, 1, k), n.end_pos - (Len(n.seq) - k), FALSE, n.incoming)
        second == Node(Len(g), SubSeq(n.seq, k + 1, Len(n.seq)), n.end_pos, n.pinched, <<n.id>>)
    IN [j \in 1 .. (Len(g) + 1) |->
          IF j < i THEN g[j]
          ELSE IF j = i THEN first
          ELSE IF j = i + 1 THEN second
          ELSE [g[j - 1] EXCEPT !.incoming = Renamed(@, n.id, Len(g))]]

\* one read against a linear reference or a bubble one of whose reference
\* nodes is cut in two
SplitGraphs ==
    UNION {{SplitAt(Linear(sq, 0), 1, k) : k \in 1 .. (Len(sq) - 1)} :
              sq \in SeqsOf(RefAlphabet, 2, MaxSplitRef)}
    \cup
    {SplitAt(Bubble(<<BaseA>>, r, a, t), i, 1) :
        r \in SeqsOf(RefAlphabet, AlleleLen, AlleleLen),
        a \in SeqsOf(RefAlphabet, AlleleLen, AlleleLen),
        t \in SeqsOf(RefAlphabet, AlleleLen, AlleleLen),
        i \in {2, 4}}
SplitInputs(read_len) ==
    {AlignArgs("split", <<rd>>, <<>>, g, f) :
        rd \in SeqsOf(ReadAlphabet, 1, read_len), g \in SplitGraphs, f \in BOOLEAN}

\* one read with or without Phred qualities, an ambiguous base among its
\* bases, against a short linear reference, one or both strands
QualAlphabet == {0, 20, 50}
QualReads(read_len) == SeqsOf(ReadAlphabet \cup {BaseN}, 1, read_len)
QualsOf(rd) == {<<>>} \cup {<<q>> : q \in SeqsOf(QualAlphabet, Len(rd), Len(rd))}
QualInputs(read_len) ==
    UNION {{AlignArgs("qual", <<rd>>, q, Linear(sq, 0), f) :
                q \in QualsOf(rd), sq \in SeqsOf(RefAlphabet, 1, 1), f \in BOOLEAN} :
           rd \in QualReads(read_len)}

\* one read against a linear reference long enough for a candidate to be
\* seen beyond the max and committed by a later cell
FarInputs(read_len) ==
    {AlignArgs("far", <<rd>>, <<>>, Linear(sq, 0), f) :
        rd \in SeqsOf(ReadAlphabet, 1, read_len),
        sq \in SeqsOf(RefAlphabet, MaxFarRef, MaxFarRef),
        f \in BOOLEAN}

\* one read against a short linear reference, for the engines of
\* ModeConstructInputs
ModeInputs(read_len) ==
    {AlignArgs("mode", <<rd>>, <<>>, Linear(sq, 0), f) :
        rd \in SeqsOf(ReadAlphabet, 1, read_len),
        sq \in SeqsOf(RefAlphabet, 1, MaxModeRef),
        f \in BOOLEAN}

Families == {"lin", "batch", "bubble", "seq", "unsorted", "split"}

AlignInputs(fam, read_len, ncalls) ==
    CASE fam = "lin" /\ ncalls = 0 -> LinInputs(read_len)
      [] fam = "batch" /\ ncalls = 0 -> BatchInputs(read_len)
      [] fam = "bubble" /\ ncalls = 0 -> BubbleInputs(read_len)
      [] fam = "seq" -> SeqInputs(read_len)
      [] fam = "unsorted" /\ ncalls = 0 -> UnsortedInputs(read_len)
      [] fam = "split" /\ ncalls = 0 -> SplitInputs(read_len)
      [] fam = "qual" /\ ncalls = 0 -> QualInputs(read_len)
      [] fam = "far" /\ ncalls = 0 -> FarInputs(read_len)
      [] fam = "mode" /\ ncalls = 0 -> ModeInputs(read_len)
      [] OTHER -> {}

\* the arguments of the constructor
CtorArgs(w, ete, msonly, maxonly, read_len, prof) ==
    [width |-> w, ete |-> ete, msonly |-> msonly, maxonly |-> maxonly,
     read_len |-> read_len, prof |-> prof]

\* read lengths and match scores around the limits of 8 and 16 bit cells
BiasReadLens == {127, 128, 129, 257, 258}
BiasProfiles == {ScoreProfile(ma, 2, 2, 3, 1, 3, 1, 0) : ma \in {1, 2, 127, 128, 255}}

ConstructInputs ==
    {CtorArgs(8, ete, FALSE, FALSE, rl, prof) :
        ete \in BOOLEAN, rl \in 1 .. MaxReadLen, prof \in Profiles}
    \cup
    {CtorArgs(w, ete, FALSE, FALSE, rl, prof) :
        w \in {8, 16}, ete \in BOOLEAN, rl \in BiasReadLens, prof \in BiasProfiles}

\* profiles of uint8_t fields that an 8 bit engine of a short read accepts:
\* a match bonus, and a mismatch and read gap penalty, beyond the signed lane
WideProfiles ==
    {ScoreProfile(200, 2, 2, 3, 1, 3, 1, 0),
     ScoreProfile(2, 1, 200, 100, 100, 3, 1, 0)}

SetScoresProfiles == Profiles \cup BiasProfiles \cup WideProfiles

\* the engines that report the max score only (MSONLY) or the max score and
\* its positions only (MAXONLY)
ModeConstructInputs ==
    {CtorArgs(8, ete, m, ~m, rl, prof) :
        ete \in BOOLEAN, m \in BOOLEAN, rl \in 1 .. MaxReadLen, prof \in Profiles}
\* values of a vector that no code has set, as far as they are told apart
Indeterminate == {0, 1}

(***************************************************************************)
(* State.                                                                  *)
(***************************************************************************)
VARIABLES
    pc,         \* "new", "failed", "error", "ready", "group", "node", "cell", "scores"
    err,        \* the exception that left the last call, or "none"
    eng,        \* the AlignerT object
    aligns,     \* the Results packet of the current or last call
    seed_map,   \* id -> seed of the nodes seen since the last pinch
    seed,       \* the seed object of align_into
    inp,        \* the arguments of the current or last call of align_into
    loc,        \* the locals of align_into and _fill_node
    obs,        \* history: per read of the batch, the cells observed <<rev, pos, score>>
    req,        \* history: the arguments of the last constructor or set_scores call
    calls,      \* number of align_into calls made on the object
    pre,        \* history: the object and the packet as the current call found them
    scope,      \* the family of inputs of this behaviour
    gg,         \* the GraphGen object: node arena, graphs by label, contig offsets
    file,       \* the graph file on disk, or <<>>
    gst,        \* GraphGen: position of its user, the collection written, the last query
    bld,        \* GraphBuilder::build and the derivations: the graphs and the locals
    pool        \* the simulation tasks, their worker threads, the mutex and the sink

\* the state outside the aligner
others == <<gg, file, gst, bld, pool>>
vars == <<pc, err, eng, aligns, seed_map, seed, inp, loc, obs, req, calls, pre, scope, others>>

NoInput == AlignArgs("none", <<>>, <<>>, <<>>, TRUE)
NoLocals == [group |-> 0, gi |-> 0, col |-> 0, row |-> 0, rev |-> FALSE, curr_pos |-> 0,
             fwdmax |-> Broadcast(0), fwdsub |-> Broadcast(0), flat |-> TRUE,
             undef |-> FALSE]
NoRequest == [width |-> 8, ete |-> FALSE, msonly |-> FALSE, maxonly |-> FALSE,
              read_len |-> 0, prof |-> ScoreProfile(0, 0, 0, 0, 0, 0, 0, 0)]

\* no GraphGen, builder or simulation is in use
Idle == [pc |-> "idle"]
OthersIdle == gg = Idle /\ file = <<>> /\ gst = Idle /\ bld = Idle /\ pool = Idle

\* no aligner has been constructed
EngineNew ==
    /\ pc = "new"
    /\ err = "none"
    /\ eng = NewAligner(8, FALSE, FALSE, FALSE, 0)
    /\ aligns = NewResults
    /\ seed_map = <<>>
    /\ seed = NewSeed(0)
    /\ inp = NoInput
    /\ loc = NoLocals
    /\ obs = <<>>
    /\ req = NoRequest
    /\ calls = 0
    /\ pre = [e |-> eng, al |-> aligns]

Init ==
    /\ OthersIdle
    /\ EngineNew
    /\ scope \in Families

MapPut(m, k, v) == [x \in (DOMAIN m) \cup {k} |-> IF x = k THEN v ELSE m[x]]
ListAt(lst, l) == IF l \in DOMAIN lst THEN lst[l] ELSE <<>>
EmptyLists == [l \in LaneSet |-> <<>>]

(***************************************************************************)
(* AlignerT(read_len, prof): set_scores may throw, and then there is no    *)
(* object.  The constructor sets none of _max_score, _sub_score and        *)
(* _waiting_score; the first two are assigned before they are read, and so *)
(* is the third unless the engine is MAXONLY.                              *)
(***************************************************************************)
Construct ==
    /\ pc = "new"
    /\ \E c \in (IF scope = "mode" THEN ModeConstructInputs ELSE ConstructInputs) :
       \E x \in (IF c.maxonly THEN Indeterminate ELSE {0}) :
         /\ req' = c
         /\ IF get_bias_throws(c.width, c.read_len, c.prof.match)
            THEN /\ pc' = "failed"
                 /\ err' = "domain_error"
                 /\ eng' = eng
            ELSE /\ pc' = "ready"
                 /\ err' = "none"
                 /\ eng' = [set_scores(NewAligner(c.width, c.ete, c.msonly, c.maxonly,
                                                  c.read_len), c.prof)
                              EXCEPT !.waiting_score = Broadcast(x)]
    /\ UNCHANGED <<aligns, seed_map, seed, inp, loc, obs, calls, pre, scope, others>>

(***************************************************************************)
(* set_scores(prof) on an object that has not aligned yet.  _prof is       *)
(* assigned before _get_bias can throw.                                    *)
(***************************************************************************)
SetScores ==
    /\ pc = "ready"
    /\ calls = 0
    /\ \E prof \in SetScoresProfiles :
         /\ req' = [req EXCEPT !.prof = prof]
         /\ IF get_bias_throws(eng.width, eng.read_len, prof.match)
            THEN /\ pc' = "error"
                 /\ err' = "domain_error"
                 /\ eng' = [eng EXCEPT !.prof = prof]
            ELSE /\ pc' = "ready"
                 /\ err' = "none"
                 /\ eng' = set_scores(eng, prof)
    /\ UNCHANGED <<aligns, seed_map, seed, inp, loc, obs, calls, pre, scope, others>>

(***************************************************************************)
(* align_into: entry.  The results are sized for whole groups; seed_map    *)
(* and seed are new objects.  Results is new (align) or the packet of the  *)
(* call before.                                                            *)
(***************************************************************************)
NumGroups(n) == 1 + ((n - 1) \div Lanes)
BegOffset(group) == group * Lanes
EndOffset(group, n) == Min2((group + 1) * Lanes, n)

AlignInto ==
    /\ pc = "ready"
    /\ calls < MaxCalls
    /\ eng.read_len <= MaxReadLen
    /\ eng.prof \in Profiles \/ (scope = "qual" /\ eng.prof \in WideProfiles)
    /\ \E i \in AlignInputs(scope, eng.read_len, calls) :
       \E reuse \in (IF calls = 0 THEN {FALSE} ELSE BOOLEAN) :
       \E flat \in (IF Len(i.read_group) > Lanes THEN BOOLEAN ELSE {TRUE}) :
         /\ inp' = i
         /\ pre' = [e |-> eng, al |-> IF reuse THEN aligns ELSE NewResults]
         /\ aligns' = ResultsResize(IF reuse THEN aligns ELSE NewResults,
                                    NumGroups(Len(i.read_group)) * Lanes)
         /\ loc' = [NoLocals EXCEPT !.flat = flat]
         /\ obs' = [r \in 0 .. (Len(i.read_group) - 1) |-> {}]
    /\ seed_map' = <<>>
    /\ seed' = NewSeed(eng.read_len)
    /\ calls' = calls + 1
    /\ pc' = "group"
    /\ UNCHANGED <<err, eng, req, scope, others>>

(***************************************************************************)
(* align_into: start of a group up to the forward load_reads.  The         *)
(* position lists are resized, not cleared.                                *)
(***************************************************************************)
group_init(e, args, group, flat) ==
    LET w == e.width
        e1 == [e EXCEPT
                 !.max_score = Broadcast(NativeMin(w)),
                 !.max_pos_list = IF e.msonly THEN @ ELSE ResizeVec(@, Lanes, <<>>),
                 !.sub_pos_list = IF e.msonly THEN @ ELSE ResizeVec(@, Lanes, <<>>),
                 !.sub_score = IF e.maxonly THEN @ ELSE Broadcast(NativeMin(w)),
                 !.waiting_score = IF e.maxonly THEN @ ELSE Broadcast(NativeMin(w))]
    IN package_reads(e1, args.read_group, args.quals, FALSE, BegOffset(group),
                     EndOffset(group, Len(args.read_group)), flat)

BeginGroup ==
    /\ pc = "group"
    /\ eng' = group_init(eng, inp, loc.group, loc.flat)
    /\ seed_map' = <<>>
    /\ loc' = [loc EXCEPT !.gi = 1, !.rev = FALSE]
    /\ pc' = "node"
    /\ UNCHANGED <<err, aligns, seed, inp, obs, req, calls, pre, scope, others>>

(***************************************************************************)
(* One iteration of the node loop up to the column loop of _fill_node:     *)
(* _get_seed, the clearing of seed_map at a pinched node, and for an empty *)
(* node the whole of _fill_node.                                           *)
(***************************************************************************)
\* _fill_node: the start of a node, of a column, and the seed a node leaves
node_init(e, s) == [e EXCEPT !.S = s.S_col, !.Ic = s.I_col]
column_init(e) == [e EXCEPT !.Sd = Broadcast(e.bias)]
first_pos(n) == n.end_pos - Len(n.seq) + 2
\* the seed a node leaves: without its insertion column, and as the code has it
node_seed_S_only(e) == [S_col |-> e.S, I_col |-> e.S]
node_seed(e) == [S_col |-> e.S, I_col |-> e.Ic]

\* the seed table after the clearing at a pinched node
pinch_clear_never(n, smap) == smap

pinch_clear(n, smap) == IF n.pinched THEN <<>> ELSE smap

EnterNode ==
    /\ pc = "node"
    /\ loc.gi <= Len(inp.graph)
    /\ LET n == inp.graph[loc.gi] IN
       IF get_seed_throws(n.incoming, seed_map)
       THEN /\ pc' = "error"
            /\ err' = "out_of_range"
            /\ UNCHANGED <<eng, seed_map, seed, loc>>
       ELSE LET sd == get_seed(eng, n.incoming, seed_map, seed)
                map1 == pinch_clear(n, seed_map)
            IN /\ seed' = sd
               /\ err' = err
               /\ IF n.seq = <<>>
                  THEN /\ seed_map' = MapPut(map1, n.id, sd)
                       /\ loc' = [loc EXCEPT !.gi = @ + 1]
                       /\ UNCHANGED <<pc, eng>>
                  ELSE /\ seed_map' = map1
                       /\ eng' = column_init(node_init(eng, sd))
                       /\ loc' = [loc EXCEPT !.col = 1, !.row = 1, !.curr_pos = first_pos(n)]
                       /\ pc' = "cell"
    /\ UNCHANGED <<aligns, inp, obs, req, calls, pre, scope, others>>

(***************************************************************************)
(* One cell of _fill_node: _fill_cell with its _fill_cell_finish, the      *)
(* _fill_cell_finish of the last row in end-to-end mode, and the step to   *)
(* the next row, column or node.                                           *)
(***************************************************************************)
\* is the cell of this row handed to _fill_cell_finish
Observed(e, row) == ~e.ete \/ row = e.read_len

cell_step(e, al, beg, ref, row, curr_pos) ==
    LET e1 == fill_cell(e, ref, row) IN
    IF Observed(e, row)
    THEN fill_cell_finish(e1, al, beg, row, curr_pos)
    ELSE [e |-> e1, al |-> al]

FillCell ==
    /\ pc = "cell"
    /\ LET n == inp.graph[loc.gi]
           row == loc.row
           beg == BegOffset(loc.group)
           lastrow == row = eng.read_len
           lastcol == loc.col = Len(n.seq)
           fin == cell_step(eng, aligns, beg, n.seq[loc.col], row, loc.curr_pos)
       IN /\ aligns' = fin.al
          /\ obs' = IF Observed(eng, row)
                    THEN [r \in DOMAIN obs |->
                            IF r >= beg /\ r < beg + Lanes
                            THEN obs[r] \cup {<<loc.rev, loc.curr_pos,
                                                fin.e.S[row][r - beg] - eng.bias>>}
                            ELSE obs[r]]
                    ELSE obs
          /\ IF ~lastrow
             THEN /\ eng' = fin.e
                  /\ loc' = [loc EXCEPT !.row = @ + 1]
                  /\ UNCHANGED <<pc, seed_map>>
             ELSE IF ~lastcol
             THEN /\ eng' = column_init(fin.e)
                  /\ loc' = [loc EXCEPT !.row = 1, !.col = @ + 1, !.curr_pos = @ + 1]
                  /\ UNCHANGED <<pc, seed_map>>
             ELSE /\ eng' = fin.e
                  /\ seed_map' = MapPut(seed_map, n.id, node_seed(fin.e))
                  /\ loc' = [loc EXCEPT !.gi = @ + 1]
                  /\ pc' = "node"
    /\ UNCHANGED <<err, seed, inp, req, calls, pre, scope, others>>

(***************************************************************************)
(* align_into after the forward node loop: the commit of a waiting submax, *)
(* the copy of the forward lists, and with fwdonly = false the set-up of   *)
(* the reverse pass.  _max_score, _sub_score, _waiting_score and           *)
(* _waiting_pos are not reset for the reverse pass.                        *)
(***************************************************************************)
CopyLists(e, lists, beg, n_reads_group, which) ==
    [i \in DOMAIN lists |->
        IF i >= beg /\ i < beg + n_reads_group
        THEN ListAt(IF which = "max" THEN e.max_pos_list ELSE e.sub_pos_list, i - beg)
        ELSE lists[i]]

ZeroGroup(v, beg) == [i \in DOMAIN v |-> IF i >= beg /\ i < beg + Lanes THEN 0 ELSE v[i]]

\* the commit and the copy of the forward lists
forward_end(e, al, args, group) ==
    LET beg == BegOffset(group)
        n_reads_group == EndOffset(group, Len(args.read_group)) - beg
        fc == final_commit(e, al, beg)
    IN [e |-> fc.e,
        al |-> [fc.al EXCEPT
                  !.max_pos_list_fwd = CopyLists(fc.e, @, beg, n_reads_group, "max"),
                  !.sub_pos_list_fwd = CopyLists(fc.e, @, beg, n_reads_group, "sub")]]

\* the set-up of the reverse pass without the clearing of the position lists
reverse_init_lists_kept(e, al, args, group, flat) ==
    LET beg == BegOffset(group) IN
    [e |-> package_reads(e, args.read_group, args.quals, TRUE, beg,
                         EndOffset(group, Len(args.read_group)), flat),
     al |-> [al EXCEPT
               !.max_last_pos = IF e.msonly THEN @ ELSE ZeroGroup(@, beg),
               !.sub_last_pos = IF e.maxonly THEN @ ELSE ZeroGroup(@, beg)]]

\* the set-up of the reverse pass
reverse_init(e, al, args, group, flat) ==
    LET beg == BegOffset(group) IN
    [e |-> [package_reads(e, args.read_group, args.quals, TRUE, beg,
                          EndOffset(group, Len(args.read_group)), flat)
              EXCEPT !.max_pos_list = EmptyLists, !.sub_pos_list = EmptyLists],
     al |-> [al EXCEPT
               !.max_last_pos = IF e.msonly THEN @ ELSE ZeroGroup(@, beg),
               !.sub_last_pos = IF e.maxonly THEN @ ELSE ZeroGroup(@, beg)]]

\* does the end of a strand pass read what was never sized or set: the
\* position lists of an MSONLY engine, resized only for the reverse pass,
\* in the copy of the forward lists; and _waiting_pos, which an MAXONLY
\* engine never points anywhere, in the commit of a waiting submax
undefined_read(e, args, group, rev) ==
    LET n_reads_group == EndOffset(group, Len(args.read_group)) - BegOffset(group) IN
    \/ /\ e.msonly
       /\ ~rev
       /\ \E r \in 0 .. (n_reads_group - 1) : r \notin DOMAIN e.max_pos_list
    \/ /\ e.maxonly
       /\ \E l \in LaneSet : e.waiting_score[l] > e.sub_score[l]

\* what such a read can end in: the process dies, or the copy yields empty
\* lists, or it yields a list that holds a stray position
Outcomes(undef) == IF undef THEN {"crash", "empty", "stray"} ELSE {"defined"}

\* the forward lists of a group as a stray read leaves them
stray_lists(al, beg) ==
    LET InGroup(i) == i >= beg /\ i < beg + Lanes IN
    [al EXCEPT !.max_pos_list_fwd = [i \in DOMAIN @ |-> IF InGroup(i) THEN <<1>> ELSE @[i]]]

EndForward ==
    /\ pc = "node"
    /\ loc.gi > Len(inp.graph)
    /\ ~loc.rev
    /\ \E out \in Outcomes(undefined_read(eng, inp, loc.group, FALSE)) :
       LET fe0 == forward_end(eng, aligns, inp, loc.group)
           fe == IF out = "stray" /\ eng.msonly
                 THEN [fe0 EXCEPT !.al = stray_lists(@, BegOffset(loc.group))] ELSE fe0
           ri == reverse_init(fe.e, fe.al, inp, loc.group, loc.flat)
           lc == [loc EXCEPT !.undef = @ \/ out # "defined"]
       IN IF out = "crash"
          THEN /\ pc' = "error"
               /\ err' = "undefined"
               /\ loc' = lc
               /\ UNCHANGED <<eng, aligns, seed_map>>
          ELSE IF inp.fwdonly
          THEN /\ eng' = fe.e
               /\ aligns' = fe.al
               /\ pc' = "scores"
               /\ err' = err
               /\ loc' = lc
               /\ UNCHANGED seed_map
          ELSE /\ eng' = ri.e
               /\ aligns' = ri.al
               /\ seed_map' = <<>>
               /\ err' = err
               /\ loc' = [lc EXCEPT !.rev = TRUE, !.gi = 1,
                                    !.fwdmax = fe.e.max_score, !.fwdsub = fe.e.sub_score]
               /\ pc' = "node"
    /\ UNCHANGED <<seed, inp, obs, req, calls, pre, scope, others>>

(***************************************************************************)
(* align_into after the reverse node loop: the commit of a waiting submax, *)
(* the copy of the reverse lists, and the clearing of the forward lists of *)
(* the lanes whose score grew in the reverse pass.                         *)
(***************************************************************************)
reverse_end(e, al, args, group, fwdmax, fwdsub) ==
    LET beg == BegOffset(group)
        n_reads_group == EndOffset(group, Len(args.read_group)) - beg
        fc == final_commit(e, al, beg)
        InGroup(i) == i >= beg /\ i < beg + Lanes
    IN [e |-> fc.e,
        al |-> [fc.al EXCEPT
                  !.max_pos_list_rev = CopyLists(fc.e, @, beg, n_reads_group, "max"),
                  !.sub_pos_list_rev = CopyLists(fc.e, @, beg, n_reads_group, "sub"),
                  !.max_pos_list_fwd =
                      [i \in DOMAIN @ |->
                         IF InGroup(i) /\ fc.e.max_score[i - beg] > fwdmax[i - beg]
                         THEN <<>> ELSE @[i]],
                  !.sub_pos_list_fwd =
                      [i \in DOMAIN @ |->
                         IF InGroup(i) /\ fc.e.sub_score[i - beg] > fwdsub[i - beg]
                         THEN <<>> ELSE @[i]]]]

EndReverse ==
    /\ pc = "node"
    /\ loc.gi > Len(inp.graph)
    /\ loc.rev
    /\ \E out \in Outcomes(undefined_read(eng, inp, loc.group, TRUE)) :
       LET re == reverse_end(eng, aligns, inp, loc.group, loc.fwdmax, loc.fwdsub)
           lc == [loc EXCEPT !.undef = @ \/ out # "defined"]
       IN IF out = "crash"
          THEN /\ pc' = "error"
               /\ err' = "undefined"
               /\ loc' = lc
               /\ UNCHANGED <<eng, aligns>>
          ELSE /\ eng' = re.e
               /\ aligns' = re.al
               /\ pc' = "scores"
               /\ err' = err
               /\ loc' = lc
    /\ UNCHANGED <<seed_map, seed, inp, obs, req, calls, pre, scope, others>>

(***************************************************************************)
(* align_into: the copy of the scores of a group, then the next group or   *)
(* the crop of the results to the number of reads.                         *)
(***************************************************************************)
CopyScores(e, al, beg) ==
    LET InGroup(i) == i >= beg /\ i < beg + Lanes IN
    [al EXCEPT
       !.max_score = [i \in DOMAIN @ |-> IF InGroup(i) THEN e.max_score[i - beg] - e.bias ELSE @[i]],
       !.sub_score = [i \in DOMAIN @ |->
                        IF InGroup(i) /\ ~e.msonly /\ ~e.maxonly
                        THEN e.sub_score[i - beg] - e.bias ELSE @[i]]]

EndGroup ==
    /\ pc = "scores"
    /\ LET al1 == CopyScores(eng, aligns, BegOffset(loc.group)) IN
       IF loc.group + 1 < NumGroups(Len(inp.read_group))
       THEN /\ aligns' = al1
            /\ loc' = [loc EXCEPT !.group = @ + 1]
            /\ pc' = "group"
       ELSE /\ aligns' = ResultsResize(al1, Len(inp.read_group))
            /\ loc' = loc
            /\ pc' = "ready"
    /\ UNCHANGED <<err, eng, seed_map, seed, inp, obs, req, calls, pre, scope, others>>

(***************************************************************************)
(* align_into as a function of the object, the results packet and the      *)
(* arguments: the steps above run to completion.  ok is false when         *)
(* _get_seed throws.                                                       *)
(***************************************************************************)
RECURSIVE run_rows(_, _, _, _, _, _)
run_rows(e, al, beg, ref, row, curr_pos) ==
    IF row > e.read_len THEN [e |-> e, al |-> al]
    ELSE LET fin == cell_step(e, al, beg, ref, row, curr_pos)
         IN run_rows(fin.e, fin.al, beg, ref, row + 1, curr_pos)

RECURSIVE run_cols(_, _, _, _, _, _)
run_cols(e, al, beg, sq, col, curr_pos) ==
    IF col > Len(sq) THEN [e |-> e, al |-> al]
    ELSE LET fin == run_rows(column_init(e), al, beg, sq[col], 1, curr_pos)
         IN run_cols(fin.e, fin.al, beg, sq, col + 1, curr_pos + 1)

RECURSIVE run_nodes(_, _, _, _, _, _, _)
run_nodes(e, al, beg, graph, gi, smap, sd0) ==
    IF gi > Len(graph) THEN [ok |-> TRUE, e |-> e, al |-> al, seed |-> sd0]
    ELSE LET n == graph[gi] IN
         IF get_seed_throws(n.incoming, smap)
         THEN [ok |-> FALSE, e |-> e, al |-> al, seed |-> sd0]
         ELSE LET sd == get_seed(e, n.incoming, smap, sd0)
                  map1 == pinch_clear(n, smap)
              IN IF n.seq = <<>>
                 THEN run_nodes(e, al, beg, graph, gi + 1, MapPut(map1, n.id, sd), sd)
                 ELSE LET fin == run_cols(node_init(e, sd), al, beg, n.seq, 1, first_pos(n))
                      IN run_nodes(fin.e, fin.al, beg, graph, gi + 1,
                                   MapPut(map1, n.id, node_seed(fin.e)), sd)

RECURSIVE run_groups(_, _, _, _, _, _)
run_groups(e, al, args, group, flat, sd0) ==
    IF group >= NumGroups(Len(args.read_group))
    THEN [ok |-> TRUE, e |-> e, al |-> ResultsResize(al, Len(args.read_group))]
    ELSE
      LET beg == BegOffset(group)
          fw == run_nodes(group_init(e, args, group, flat), al, beg, args.graph, 1, <<>>, sd0)
          fe == forward_end(fw.e, fw.al, args, group)
          ri == reverse_init(fe.e, fe.al, args, group, flat)
          rv == run_nodes(ri.e, ri.al, beg, args.graph, 1, <<>>, fw.seed)
          re == reverse_end(rv.e, rv.al, args, group, fe.e.max_score, fe.e.sub_score)
      IN IF ~fw.ok THEN [ok |-> FALSE, e |-> fw.e, al |-> fw.al]
         ELSE IF args.fwdonly
         THEN run_groups(fe.e, CopyScores(fe.e, fe.al, beg), args, group + 1, flat, fw.seed)
         ELSE IF ~rv.ok THEN [ok |-> FALSE, e |-> rv.e, al |-> rv.al]
         ELSE run_groups(re.e, CopyScores(re.e, re.al, beg), args, group + 1, flat, rv.seed)

align_into(e, al, args, flat) ==
    run_groups(e, ResultsResize(al, NumGroups(Len(args.read_group)) * Lanes), args, 0, flat,
               NewSeed(e.read_len))

\* align: a new object for the arguments c of the constructor, a new packet
align(c, args) ==
    align_into(set_scores(NewAligner(c.width, c.ete, c.msonly, c.maxonly, c.read_len), c.prof),
               NewResults, args, TRUE)

Next ==
    \/ Construct
    \/ SetScores
    \/ AlignInto
    \/ BeginGroup
    \/ EnterNode
    \/ FillCell
    \/ EndForward
    \/ EndReverse
    \/ EndGroup

Spec == Init /\ [][Next]_vars

\* the behaviours of one family of inputs
InitLin == Init /\ scope = "lin"
InitBatch == Init /\ scope = "batch"
InitBubble == Init /\ scope = "bubble"
InitSeq == Init /\ scope = "seq"
InitUnsorted == Init /\ scope = "unsorted"
InitSplit == Init /\ scope = "split"
SpecLin == InitLin /\ [][Next]_vars
SpecBatch == InitBatch /\ [][Next]_vars
SpecBubble == InitBubble /\ [][Next]_vars
SpecSeq == InitSeq /\ [][Next]_vars
SpecUnsorted == InitUnsorted /\ [][Next]_vars
InitQual == EngineNew /\ scope = "qual" /\ OthersIdle
SpecSplit == InitSplit /\ [][Next]_vars
InitFar == EngineNew /\ scope = "far" /\ OthersIdle
InitMode == EngineNew /\ scope = "mode" /\ OthersIdle
SpecQual == InitQual /\ [][Next]_vars
SpecFar == InitFar /\ [][Next]_vars
SpecMode == InitMode /\ [][Next]_vars

\* the steps and the function agree
RunAgrees ==
    (pc = "ready" /\ calls > 0) =>
        LET r == align_into(pre.e, pre.al, inp, loc.flat)
        IN r.ok /\ r.al = aligns /\ r.e = eng

(***************************************************************************)
(* Vocabulary of the properties.                                           *)
(***************************************************************************)
\* a call of align_into has returned
Returned == pc = "ready" /\ calls > 0
\* the reads of the returned call
Reads == DOMAIN aligns.max_score
Abs(x) == IF x < 0 THEN 0 - x ELSE x
ElemsOf(lst) == {lst[k] : k \in DOMAIN lst}
\* any two entries of lst differ by at least d
Spaced(lst, d) ==
    \A j, k \in DOMAIN lst : j < k => Abs(lst[j] - lst[k]) >= d
\* the value reported for a score that no cell has set
Undefined == NativeMin(eng.width) - eng.bias
\* the scores of the cells observed for read i at position p of a strand
ScoresAt(i, rev, p) == {o[3] : o \in {x \in obs[i] : x[1] = rev /\ x[2] = p}}
SetMax(S) == CHOOSE x \in S : \A y \in S : y <= x

\* C3: every position of a reported max list is the position of an observed
\* cell of that strand whose score is the reported max_score, and no cell
\* observed there is different from what the list stands for
C3_MaxPositionsObserved ==
    Returned =>
        \A i \in Reads :
            /\ \A p \in ElemsOf(aligns.max_pos_list_fwd[i]) :
                   /\ aligns.max_score[i] \in ScoresAt(i, FALSE, p)
                   /\ \A v \in ScoresAt(i, FALSE, p) : v <= aligns.max_score[i]
            /\ \A p \in ElemsOf(aligns.max_pos_list_rev[i]) :
                   /\ aligns.max_score[i] \in ScoresAt(i, TRUE, p)
                   /\ \A v \in ScoresAt(i, TRUE, p) : v <= aligns.max_score[i]

\* C4: at every point of a traversal and in the result, in every lane, two
\* positions of max_pos_list, and two of sub_pos_list, differ by at least
\* 2 * read_len + 1
C4_ListsSpaced ==
    LET d == (2 * eng.read_len) + 1 IN
    /\ \A l \in DOMAIN eng.max_pos_list : Spaced(eng.max_pos_list[l], d)
    /\ \A l \in DOMAIN eng.sub_pos_list : Spaced(eng.sub_pos_list[l], d)
    /\ \A i \in DOMAIN aligns.max_pos_list_fwd :
          /\ Spaced(aligns.max_pos_list_fwd[i], d)
          /\ Spaced(aligns.max_pos_list_rev[i], d)
          /\ Spaced(aligns.sub_pos_list_fwd[i], d)
          /\ Spaced(aligns.sub_pos_list_rev[i], d)

\* C5: in a result with sub tracking, a defined sub_score is at most
\* max_score - 1, and every sub position is at least 2 * read_len away from
\* every max position of its strand
FarApart(subs, maxs, d) ==
    \A p \in ElemsOf(subs) : \A q \in ElemsOf(maxs) : Abs(p - q) >= d
C5_SubBelowAndApart ==
    (Returned /\ ~eng.msonly /\ ~eng.maxonly) =>
        \A i \in Reads :
            /\ aligns.sub_score[i] # Undefined => aligns.sub_score[i] <= aligns.max_score[i] - 1
            /\ FarApart(aligns.sub_pos_list_fwd[i], aligns.max_pos_list_fwd[i], 2 * eng.read_len)
            /\ FarApart(aligns.sub_pos_list_rev[i], aligns.max_pos_list_rev[i], 2 * eng.read_len)

\* C6: linear reference, forward strand, default mode: sub_score is the
\* highest observed score below max_score among the cells more than
\* 2 * read_len away from every position where max_score was observed, and
\* is undefined only when there is no such cell
MaxSeenAt(i) == {o[2] : o \in {x \in obs[i] : ~x[1] /\ x[3] = aligns.max_score[i]}}
FarBelow(i) ==
    {o[3] : o \in {x \in obs[i] :
                     /\ ~x[1]
                     /\ x[3] < aligns.max_score[i]
                     /\ \A q \in MaxSeenAt(i) : Abs(x[2] - q) > 2 * eng.read_len}}
C6_SubIsBestFarBelow ==
    (Returned /\ inp.fwdonly /\ Len(inp.graph) = 1 /\ ~eng.msonly /\ ~eng.maxonly) =>
        \A i \in Reads :
            aligns.sub_score[i] =
                IF FarBelow(i) = {} THEN Undefined ELSE SetMax(FarBelow(i))

(***************************************************************************)
(* The alignment scores the properties speak of, computed on unbounded     *)
(* integers over the sequence of one path: H is the best score of an       *)
(* alignment ending in a cell, D with a gap of the reference (read bases   *)
(* against nothing), I with a gap of the read.  A gap of length k costs    *)
(* open + k * ext.                                                         *)
(***************************************************************************)
NegInf == 0 - Pow2(16)
Max3(a, b, c) == Max2(a, Max2(b, c))

\* the score of read base i (1-indexed) of read rd against reference base b
Subst(prof, rd, qual, i, b) ==
    IF b = BaseN \/ rd[i] = BaseN THEN 0 - prof.ambig
    ELSE IF rd[i] = b THEN prof.match
    ELSE IF qual = <<>> THEN 0 - prof.mismatch_max
    ELSE 0 - penalty(prof, qual[i])

\* column 0: nothing of the reference consumed; rows are indexed from 1 for row 0
FirstColumn(prof, m, local) ==
    [i \in 1 .. (m + 1) |->
        [H |-> IF local \/ i = 1 THEN 0
               ELSE 0 - (prof.ref_gopen + ((i - 1) * prof.ref_gext)),
         D |-> NegInf, I |-> NegInf]]

RECURSIVE ColumnRows(_, _, _, _, _, _, _, _)
\* the rows i.. of the column of reference base b, acc holding the rows before
ColumnRows(prof, rd, qual, local, prevc, b, i, acc) ==
    IF i > Len(rd) THEN acc
    ELSE LET d == Max2(acc[i].D - prof.ref_gext,
                       acc[i].H - (prof.ref_gopen + prof.ref_gext))
             ins == Max2(prevc[i + 1].I - prof.read_gext,
                         prevc[i + 1].H - (prof.read_gopen + prof.read_gext))
             diag == prevc[i].H + Subst(prof, rd, qual, i, b)
             h == Max3(d, ins, diag)
         IN ColumnRows(prof, rd, qual, local, prevc, b, i + 1,
                       Append(acc, [H |-> IF local THEN Max2(0, h) ELSE h,
                                    D |-> d, I |-> ins]))

RECURSIVE BestOnSeq(_, _, _, _, _, _, _, _)
\* the best score over the columns j.. of the sequence sq, best being the best so far
BestOnSeq(prof, rd, qual, local, sq, j, prevc, best) ==
    IF j > Len(sq) THEN best
    ELSE LET c == ColumnRows(prof, rd, qual, local, prevc, sq[j], 1,
                             <<[H |-> 0, D |-> NegInf, I |-> NegInf]>>)
             here == IF local THEN SetMax({c[i].H : i \in DOMAIN c})
                     ELSE c[Len(rd) + 1].H
         IN BestOnSeq(prof, rd, qual, local, sq, j + 1, c, Max2(best, here))

\* optimal local score (floor 0) and optimal end-to-end score of rd on sq
LocalScore(prof, rd, qual, sq) ==
    BestOnSeq(prof, rd, qual, TRUE, sq, 1, FirstColumn(prof, Len(rd), TRUE), 0)
EndToEndScore(prof, rd, qual, sq) ==
    BestOnSeq(prof, rd, qual, FALSE, sq, 1, FirstColumn(prof, Len(rd), FALSE), NegInf)

\* the paths of a graph, as sequences of indexes of its nodes
IndexOf(g, id) == CHOOSE k \in DOMAIN g : g[k].id = id
RECURSIVE PathsTo(_, _)
PathsTo(g, k) ==
    IF g[k].incoming = <<>> THEN {<<k>>}
    ELSE UNION {{Append(pth, k) : pth \in PathsTo(g, IndexOf(g, id))} :
                   id \in ElemsOf(g[k].incoming)}
Paths(g) == UNION {PathsTo(g, k) : k \in DOMAIN g}
RECURSIVE PathSeq(_, _, _)
PathSeq(g, pth, k) ==
    IF k > Len(pth) THEN <<>> ELSE g[pth[k]].seq \o PathSeq(g, pth, k + 1)

QualOf(args, i) == IF args.quals = <<>> THEN <<>> ELSE args.quals[i + 1]
Reverse(sq) == [k \in 1 .. Len(sq) |-> sq[Len(sq) + 1 - k]]
\* the reverse complement of a read
RevComp(rd) == [k \in 1 .. Len(rd) |-> complement_b(rd[Len(rd) + 1 - k])]

\* the best score of a read, with its qualities, over the paths of a graph
BestOfRead(prof, local, rd, qual, g) ==
    SetMax({IF local THEN LocalScore(prof, rd, qual, PathSeq(g, pth, 1))
            ELSE EndToEndScore(prof, rd, qual, PathSeq(g, pth, 1)) : pth \in Paths(g)})

\* the best score of read i of a call: of the read, or of the read and its
\* reverse complement when both strands are aligned
BestOfCall(prof, local, args, i) ==
    LET fw == BestOfRead(prof, local, args.read_group[i + 1], QualOf(args, i), args.graph)
        rv == BestOfRead(prof, local, RevComp(args.read_group[i + 1]),
                         Reverse(QualOf(args, i)), args.graph)
    IN IF args.fwdonly THEN fw ELSE Max2(fw, rv)

\* C1: local mode: the reported max_score of every read is the maximum over
\* the paths of the graph of the optimal local affine-gap score of the read
C1_LocalMaxScore ==
    (Returned /\ ~eng.ete) =>
        \A i \in Reads : aligns.max_score[i] = BestOfCall(eng.prof, TRUE, inp, i)

\* C2: end-to-end mode: the reported max_score of every read is the best
\* affine-gap score of all of its bases against a substring of a path
C2_EndToEndMaxScore ==
    (Returned /\ eng.ete) =>
        \A i \in Reads : aligns.max_score[i] = BestOfCall(eng.prof, FALSE, inp, i)

(***************************************************************************)
(* Calls to compare a call with.                                           *)
(***************************************************************************)
\* the arguments of the constructor of the object
CtorOf(e) == CtorArgs(e.width, e.ete, e.msonly, e.maxonly, e.read_len, e.prof)
\* the scores and position lists a packet holds for read i
ResultOf(al, i) ==
    [max_score |-> al.max_score[i], sub_score |-> al.sub_score[i],
     max_pos_list_fwd |-> al.max_pos_list_fwd[i], sub_pos_list_fwd |-> al.sub_pos_list_fwd[i],
     max_pos_list_rev |-> al.max_pos_list_rev[i], sub_pos_list_rev |-> al.sub_pos_list_rev[i]]
\* read i of the call aligned alone by a new object into a new packet
Alone(i) ==
    align(CtorOf(eng),
          AlignArgs(inp.fam, <<inp.read_group[i + 1]>>,
                    IF inp.quals = <<>> THEN <<>> ELSE <<inp.quals[i + 1]>>,
                    inp.graph, inp.fwdonly))
\* the call made forward-only instead, on the object and packet it found
ForwardCall == align_into(pre.e, pre.al, [inp EXCEPT !.fwdonly = TRUE], loc.flat)
\* the call made forward-only with the reverse complements of its reads
RevCompCall ==
    align_into(pre.e, pre.al,
               [inp EXCEPT !.read_group = [k \in DOMAIN @ |-> RevComp(@[k])],
                           !.quals = [k \in DOMAIN @ |-> Reverse(@[k])],
                           !.fwdonly = TRUE],
               loc.flat)
\* the best score observed for read i on a strand
ObsBest(i, rev) == SetMax({o[3] : o \in {x \in obs[i] : x[1] = rev}})

\* C7: a call returns one result per read, and the result of a read is the
\* one it gets when it is aligned alone by a new object
C7_ResultOfReadAlone ==
    Returned =>
        /\ Reads = 0 .. (Len(inp.read_group) - 1)
        /\ \A i \in Reads :
               LET a == Alone(i)
               IN a.ok /\ ResultOf(aligns, i) = ResultOf(a.al, 0)

\* C8 as stated: the reverse positions of a read aligned to both strands are
\* the forward positions of its reverse complement aligned forward-only
C8_RevIsFwdOfRevComp ==
    (Returned /\ ~inp.fwdonly) =>
        LET rc == RevCompCall
        IN rc.ok /\ \A i \in Reads :
                        aligns.max_pos_list_rev[i] = rc.al.max_pos_list_fwd[i]

\* C8 amended: they are when the reverse strand scores strictly higher than
\* the forward strand; when it scores strictly lower there are none
C8_RevIsFwdOfRevCompWhenHigher ==
    (Returned /\ ~inp.fwdonly) =>
        LET rc == RevCompCall
        IN rc.ok /\ \A i \in Reads :
               /\ ObsBest(i, TRUE) > ObsBest(i, FALSE) =>
                      aligns.max_pos_list_rev[i] = rc.al.max_pos_list_fwd[i]
               /\ ObsBest(i, TRUE) < ObsBest(i, FALSE) =>
                      aligns.max_pos_list_rev[i] = <<>>

\* a read whose reverse strand scores higher, with reverse positions reported
C8_ReverseStrandHigher ==
    /\ Returned
    /\ ~inp.fwdonly
    /\ \E i \in Reads :
          /\ ObsBest(i, TRUE) > ObsBest(i, FALSE)
          /\ aligns.max_pos_list_rev[i] # <<>>

\* C9: after both strands max_score is the larger of the two best scores; the
\* strand that scores strictly lower has no max positions; with equal
\* scores each strand has the positions it reports when aligned alone
C9_StrandMerge ==
    (Returned /\ ~inp.fwdonly) =>
        LET fc == ForwardCall
            rc == RevCompCall
        IN fc.ok /\ rc.ok /\ \A i \in Reads :
            LET f == ResultOf(fc.al, i)
                r == ResultOf(rc.al, i)
            IN /\ aligns.max_score[i] = Max2(f.max_score, r.max_score)
               /\ f.max_score > r.max_score =>
                      /\ aligns.max_pos_list_rev[i] = <<>>
                      /\ aligns.max_pos_list_fwd[i] = f.max_pos_list_fwd
               /\ r.max_score > f.max_score =>
                      /\ aligns.max_pos_list_fwd[i] = <<>>
                      /\ aligns.max_pos_list_rev[i] = r.max_pos_list_fwd
               /\ f.max_score = r.max_score =>
                      /\ aligns.max_pos_list_fwd[i] = f.max_pos_list_fwd
                      /\ aligns.max_pos_list_rev[i] = r.max_pos_list_fwd

\* C10: a constructor or set_scores call with read_len * match beyond the
\* range of the cell fails with a domain error, and the constructor then
\* leaves no object; an object that exists and has not failed has
\* bias + read_len * match within the signed maximum of its cell
C10_RangeChecked ==
    /\ (pc # "new"
          /\ req.read_len * req.prof.match > NativeMax(req.width) - NativeMin(req.width))
         => (pc \in {"failed", "error"} /\ err = "domain_error")
    /\ pc = "failed" => eng = NewAligner(8, FALSE, FALSE, FALSE, 0)
    /\ pc \notin {"new", "failed", "error"} =>
          eng.bias + (eng.read_len * eng.prof.match) <= NativeMax(eng.width)

\* a constructor call refused because read_len * match is beyond the range
C10_ConstructionRefused ==
    /\ pc = "failed"
    /\ err = "domain_error"
    /\ req.read_len * req.prof.match > NativeMax(req.width) - NativeMin(req.width)

(***************************************************************************)
(* C11.  A node one of whose incoming ids has no seed in the seed table    *)
(* (the predecessor comes later in the order, or precedes an intervening   *)
(* pinch point) stops the alignment with an error at that node: the call   *)
(* returns no results and the traversal never enters that node or goes     *)
(* past it.                                                                *)
(***************************************************************************)
\* the ids that have a seed when the k-th node of g is entered
LiveIds(g, k) ==
    {g[j].id : j \in {j \in 1 .. (k - 1) : \A m \in (j + 1) .. (k - 1) : ~g[m].pinched}}
MissingAt(g, k) ==
    \E p \in 1 .. Len(g[k].incoming) : g[k].incoming[p] \notin LiveIds(g, k)
\* the first node with a missing seed, or 0
FirstMissing(g) ==
    IF \E k \in 1 .. Len(g) : MissingAt(g, k)
    THEN CHOOSE k \in 1 .. Len(g) :
             MissingAt(g, k) /\ \A j \in 1 .. (k - 1) : ~MissingAt(g, j)
    ELSE 0

C11_MissingSeedStops ==
    (calls > 0 /\ FirstMissing(inp.graph) > 0) =>
        /\ pc # "ready"
        /\ loc.gi <= FirstMissing(inp.graph)
        /\ pc = "cell" => loc.gi < FirstMissing(inp.graph)
        /\ loc.gi = FirstMissing(inp.graph) => (~loc.rev /\ loc.group = 0)
        /\ pc = "error" =>
              (err = "out_of_range" /\ loc.gi = FirstMissing(inp.graph))

C11_StoppedAtPinchedPredecessor ==
    /\ pc = "error" /\ err = "out_of_range"
    /\ loc.gi = 3 /\ inp.graph[2].pinched /\ inp.graph[3].incoming = <<0, 1>>

(***************************************************************************)
(* C17.  A reference node replaced by two consecutive nodes that cut its   *)
(* sequence at an interior point (the first part ending at its last base,  *)
(* not pinched, one edge between the parts) leaves max_score, sub_score    *)
(* and the position lists of every read as they are for the whole node,    *)
(* in local and in end-to-end mode.                                        *)
(***************************************************************************)
\* the second part of the cut node is the node with the newest id
SecondPart(g) == CHOOSE j \in 1 .. Len(g) : g[j].id = Len(g) - 1
\* the graph before the cut
Whole(g) ==
    LET j == SecondPart(g)
        first == g[j - 1]
        n == Node(first.id, first.seq \o g[j].seq, g[j].end_pos, g[j].pinched, first.incoming)
    IN [m \in 1 .. (Len(g) - 1) |->
          IF m < j - 1 THEN g[m]
          ELSE IF m = j - 1 THEN n
          ELSE [g[m + 1] EXCEPT !.incoming = Renamed(@, Len(g) - 1, first.id)]]
\* the call made on the graph before the cut
WholeCall == align_into(pre.e, pre.al, [inp EXCEPT !.graph = Whole(@)], loc.flat)

C17_SplitNodeSameResult ==
    Returned =>
        LET w == WholeCall
        IN w.ok /\ \A i \in Reads : ResultOf(aligns, i) = ResultOf(w.al, i)

\* a call has returned for a read that reaches its best score only across
\* the cut
C17_AlignedAcrossCut ==
    /\ Returned
    /\ Len(inp.graph) = 2
    /\ Len(inp.read_group[1]) = 2
    /\ inp.read_group[1] = inp.graph[1].seq \o inp.graph[2].seq
    /\ aligns.max_pos_list_fwd[0] = <<2>>

\* the value 1 of an allele frequency, in the units the frequencies are counted in
AfOne == 10000000
\* significant digits a stream writes of a float
StreamPrecision == 6
\* the labels in the order std::map iterates
LabelOrder == <<"base", "sub">>

(***************************************************************************)
(* GraphGen: a node arena, graphs by label that share it, and the offsets  *)
(* of the contigs; write and open of the graph file; absolute_position.    *)
(***************************************************************************)
\* a node of the arena; af counts units of 1/AfOne, population has one
\* flag per haplotype
ArenaNode(id, sq, end_pos, af, pinched, is_ref, population) ==
    [id |-> id, seq |-> sq, end_pos |-> end_pos, af |-> af, pinched |-> pinched,
     is_ref |-> is_ref, population |-> population]
\* Graph::Node{}: is_ref of a new node is not set by open
DefaultNode(ref) == ArenaNode(0, <<>>, 0, AfOne, FALSE, ref, <<>>)

\* a graph: its node order and its forward adjacency
GraphOf(order, next_map) == [order |-> order, next_map |-> next_map]
Collection(nodes, graphs, contigs) == [pc |-> "in use", nodes |-> nodes, graphs |-> graphs,
                                       contigs |-> contigs]

\* the elements of a set of numbers in ascending order, as std::map iterates
RECURSIVE Ascending(_)
Ascending(S) ==
    IF S = {} THEN <<>>
    ELSE LET m == CHOOSE x \in S : \A y \in S : x <= y
         IN <<m>> \o Ascending(S \ {m})
\* the orders in which an unordered_map may be iterated
Perms(S) == {p \in [1 .. Cardinality(S) -> S] : \A i, j \in DOMAIN p : p[i] = p[j] => i = j}

\* operator<< of an unsigned number: its decimal digits; std::stoul
RECURSIVE to_text(_)
to_text(n) == IF n < 10 THEN <<n>> ELSE Append(to_text(n \div 10), n % 10)
RECURSIVE stoul(_)
stoul(t) == IF Len(t) = 1 THEN t[1] ELSE (10 * stoul(SubSeq(t, 1, Len(t) - 1))) + t[Len(t)]
\* rg::vec_to_str(v, ","): the texts of the elements
vec_to_str(v) == [i \in DOMAIN v |-> to_text(v[i])]

RECURSIVE Pow10(_)
Pow10(n) == IF n = 0 THEN 1 ELSE 10 * Pow10(n - 1)
\* operator<< of a float: the value rounded to the significant digits of the
\* stream's precision; std::stof reads the text back
float_text(af) ==
    LET d == Len(to_text(af))
        m == Pow10(d - StreamPrecision)
    IN to_text(IF d <= StreamPrecision THEN af ELSE ((af + (m \div 2)) \div m) * m)
stof(t) == stoul(t)

\* rg::num_to_base and rg::base_to_num
num_to_base(b) ==
    CASE b = BaseA -> "A" [] b = BaseC -> "C" [] b = BaseG -> "G" [] b = BaseT -> "T"
      [] OTHER -> "N"
base_to_num(c) ==
    CASE c = "A" -> BaseA [] c = "C" -> BaseC [] c = "G" -> BaseG [] c = "T" -> BaseT
      [] OTHER -> BaseN

\* split(line, delim): the fields that are not empty
RECURSIVE split(_)
split(fields) ==
    IF fields = <<>> THEN <<>>
    ELSE (IF Head(fields) = <<>> THEN <<>> ELSE <<Head(fields)>>) \o split(Tail(fields))

(***************************************************************************)
(* write: the sections @contigs, @graphs and @nodes.  A line is the        *)
(* sequence of its tab-separated fields.  The sources of a graph's edges   *)
(* and the nodes are written in the order the maps iterate, src_order and  *)
(* node_order.                                                             *)
(***************************************************************************)
contig_line(g, o) == <<to_text(o), <<g.contigs[o]>>>>
edge_text(gr, from) == [from |-> to_text(from), to |-> vec_to_str(gr.next_map[from])]
graph_line(g, label, srcs) ==
    <<<<label>>, vec_to_str(g.graphs[label].order),
      [i \in DOMAIN srcs |-> edge_text(g.graphs[label], srcs[i])]>>
node_lines(n) ==
    [meta |-> <<to_text(n.id), to_text(n.end_pos), float_text(n.af),
                to_text(IF n.pinched THEN 1 ELSE 0), to_text(Len(n.seq))>>,
     seq |-> [i \in DOMAIN n.seq |-> num_to_base(n.seq[i])]]
Labels(g) == LET L == DOMAIN g.graphs IN SelectSeq(LabelOrder, LAMBDA l : l \in L)
\* the lines "@contigs", "@graphs" and "@nodes" that begin the sections
SectionLines == <<"@contigs", "@graphs", "@nodes">>
write(g, src_order, node_order) ==
    [head |-> <<"@vgraph">>,
     sections |-> SectionLines,
     contigs |-> LET offs == Ascending(DOMAIN g.contigs)
                 IN [i \in DOMAIN offs |-> contig_line(g, offs[i])],
     graphs |-> LET ls == Labels(g)
                IN [i \in DOMAIN ls |-> graph_line(g, ls[i], src_order[ls[i]])],
     nodes |-> [i \in DOMAIN node_order |-> node_lines(g.nodes[node_order[i]])]]

(***************************************************************************)
(* open: the object is emptied, then the sections are read in order.  A    *)
(* line with too few fields throws; nothing else in a line is checked.     *)
(***************************************************************************)
\* Graph::set_order and Graph::add_edge_unchecked
set_order(gr, order) == [gr EXCEPT !.order = order]
add_edge_unchecked(gr, from, to) ==
    [gr EXCEPT !.next_map = MapPut(@, from, ListAt(@, from) \o <<to>>)]

RECURSIVE add_edges_to(_, _, _, _)
\* the inner loop over the targets of one source
add_edges_to(gr, from, tos, i) ==
    IF i > Len(tos) THEN gr
    ELSE add_edges_to(add_edge_unchecked(gr, from, stoul(tos[i])), from, tos, i + 1)
RECURSIVE add_edge_pairs(_, _, _)
\* the loop over the source:targets pairs of a graph line
add_edge_pairs(gr, pairs, i) ==
    IF i > Len(pairs) THEN gr
    ELSE add_edge_pairs(add_edges_to(gr, stoul(pairs[i].from), pairs[i].to, 1), pairs, i + 1)

\* one line of @graphs, its fields already split
open_graph(tokens) ==
    LET gr == set_order(GraphOf(<<>>, <<>>), [i \in DOMAIN tokens[2] |-> stoul(tokens[2][i])])
    IN IF Len(tokens) > 2 THEN add_edge_pairs(gr, tokens[3], 1) ELSE gr

\* one entry of @nodes: the node is created if its id is new, and its fields
\* are set; the bases are appended to the sequence the node has
open_node(nodes, entry, ref) ==
    LET id == stoul(entry.meta[1])
        n == IF id \in DOMAIN nodes THEN nodes[id] ELSE DefaultNode(ref)
    IN MapPut(nodes, id,
              [n EXCEPT !.id = id,
                        !.end_pos = stoul(entry.meta[2]),
                        !.af = stof(entry.meta[3]),
                        !.pinched = IF entry.meta[4] = <<1>> THEN TRUE ELSE @,
                        !.seq = @ \o [i \in DOMAIN entry.seq |-> base_to_num(entry.seq[i])]])

RECURSIVE open_contigs(_, _, _)
open_contigs(g, lines, i) ==
    IF i > Len(lines) THEN [ok |-> TRUE, g |-> g]
    ELSE LET tokens == split(lines[i]) IN
         IF Len(tokens) # 2 THEN [ok |-> FALSE, g |-> g]
         ELSE open_contigs([g EXCEPT !.contigs = MapPut(@, stoul(tokens[1]), tokens[2][1])],
                           lines, i + 1)
RECURSIVE open_graphs(_, _, _)
open_graphs(g, lines, i) ==
    IF i > Len(lines) THEN [ok |-> TRUE, g |-> g]
    ELSE LET tokens == split(lines[i]) IN
         IF Len(tokens) < 2 THEN [ok |-> FALSE, g |-> g]
         ELSE open_graphs([g EXCEPT !.graphs = MapPut(@, tokens[1][1], open_graph(tokens))],
                          lines, i + 1)
RECURSIVE open_nodes(_, _, _, _)
open_nodes(g, entries, i, ref) ==
    IF i > Len(entries) THEN [ok |-> TRUE, g |-> g]
    ELSE IF Len(split(entries[i].meta)) # 5 THEN [ok |-> FALSE, g |-> g]
    ELSE open_nodes([g EXCEPT !.nodes = open_node(@, entries[i], ref)], entries, i + 1, ref)

\* the sections of open: ok is false when a line throws, and g is what the
\* object holds then
open_sections(f, ref) ==
    LET c == open_contigs(Collection(<<>>, <<>>, <<>>), f.contigs, 1)
        gr == open_graphs(c.g, f.graphs, 1)
        n == open_nodes(gr.g, f.nodes, 1, ref)
    IN IF ~c.ok THEN [ok |-> FALSE, err |-> "domain_error", g |-> c.g]
       ELSE IF ~gr.ok THEN [ok |-> FALSE, err |-> "domain_error", g |-> gr.g]
       ELSE IF ~n.ok THEN [ok |-> FALSE, err |-> "invalid_argument", g |-> n.g]
       ELSE [ok |-> TRUE, err |-> "none", g |-> n.g]

RECURSIVE header_scan(_, _)
\* the first loop of open: lines are read while the line is empty or begins
\* with '#'.  A getline that fails leaves such a line as it is, so the loop
\* does not end when the input is exhausted before another line is found
header_scan(head, i) ==
    IF i > Len(head) THEN "no return"
    ELSE IF head[i] = "" \/ head[i] = "#" THEN header_scan(head, i + 1)
    ELSE IF head[i] # "@vgraph" THEN "invalid_argument"
    ELSE "none"

\* open: cur is what the object holds before the call.  The asserts on the
\* section lines abort the process unless they are compiled out (ndebug)
open(cur, f, ref, ndebug) ==
    LET h == header_scan(f.head, 1)
        o == open_sections(f, ref)
    IN IF h # "none" THEN [ok |-> FALSE, err |-> h, g |-> cur]
       ELSE IF f.sections # SectionLines /\ ~ndebug THEN [ok |-> FALSE, err |-> "abort", g |-> o.g]
       ELSE o

\* absolute_position: lower_bound is the first offset not below pos, or the
\* end; it is stepped back unless it is the first.  The difference is
\* unsigned: a negative number here stands for its value modulo 2^32, and
\* none arises, because the first offset is 0
upper_bound(offs, pos) ==
    IF \E i \in DOMAIN offs : offs[i] > pos
    THEN CHOOSE i \in DOMAIN offs : offs[i] > pos /\ \A j \in 1 .. (i - 1) : offs[j] <= pos
    ELSE Len(offs) + 1
lower_bound(offs, pos) ==
    IF \E i \in DOMAIN offs : offs[i] >= pos
    THEN CHOOSE i \in DOMAIN offs : offs[i] >= pos /\ \A j \in 1 .. (i - 1) : offs[j] < pos
    ELSE Len(offs) + 1
absolute_position(g, pos) ==
    LET offs == Ascending(DOMAIN g.contigs)
        lb0 == lower_bound(offs, pos)
        lb == IF lb0 # 1 THEN lb0 - 1 ELSE lb0
    IN [pos |-> pos, first |-> g.contigs[offs[lb]], second |-> pos - offs[lb]]

(***************************************************************************)
(* The collections a GraphGen holds after create_base and its derivations: *)
(* an arena of three nodes, the graph "base" over all of them, at most one *)
(* graph "sub" over two of them, and one to three contigs.                 *)
(***************************************************************************)
HalfAf == AfOne \div 2
LongAf == 1234567   \* a frequency of seven significant digits
RefNode(id) ==
    ArenaNode(id, <<BaseA, BaseC>>, (2 * id) + 1, AfOne, TRUE, TRUE, <<TRUE, TRUE>>)
NodeVariants(id) ==
    {RefNode(id),
     [RefNode(id) EXCEPT !.seq = <<>>],
     [RefNode(id) EXCEPT !.seq = <<BaseN, BaseT, BaseG>>],
     [RefNode(id) EXCEPT !.af = HalfAf],
     [RefNode(id) EXCEPT !.af = LongAf],
     [RefNode(id) EXCEPT !.pinched = FALSE],
     [RefNode(id) EXCEPT !.is_ref = FALSE, !.population = <<TRUE, FALSE>>]}
Arenas ==
    {[id \in 0 .. 2 |-> IF id = 0 THEN a ELSE IF id = 1 THEN b ELSE RefNode(2)] :
        a \in {n \in NodeVariants(0) : n.af = AfOne /\ n.pinched}, b \in NodeVariants(1)}
BaseGraphs ==
    {GraphOf(<<0, 1, 2>>, nm) :
        nm \in {<<>>, (0 :> <<1>>) @@ (1 :> <<2>>), (0 :> <<2>>) @@ (1 :> <<2>>)}}
GraphSets ==
    {("base" :> b) : b \in BaseGraphs}
    \cup {("base" :> b) @@ ("sub" :> s) :
             b \in BaseGraphs, s \in {GraphOf(<<0, 2>>, <<>>), GraphOf(<<0, 2>>, 0 :> <<2>>)}}
ContigSets ==
    {0 :> "chr1", (0 :> "chr1") @@ (3 :> "chr2"), (0 :> "x") @@ (2 :> "y") @@ (13 :> "z")}
Collections ==
    {Collection(a, gs, cs) : a \in Arenas, gs \in GraphSets, cs \in ContigSets}

\* the file with the definition of the k-th node repeated with other bases,
\* and the file without the definition of the k-th node
Redefined(f, k) ==
    [f EXCEPT !.nodes = Append(@, [@[k] EXCEPT !.seq = <<"G">>])]
Dropped(f, k) ==
    [f EXCEPT !.nodes = SubSeq(@, 1, k - 1) \o SubSeq(@, k + 1, Len(@))]

\* the file cut off after its k-th section
Truncated(f, k) ==
    [f EXCEPT !.sections = SubSeq(@, 1, k),
              !.contigs = IF k >= 1 THEN @ ELSE <<>>,
              !.graphs = IF k >= 2 THEN @ ELSE <<>>,
              !.nodes = <<>>]
\* what a file may have in place of the line "@vgraph": nothing, empty lines,
\* comments, another line, or comments before the line
Heads == {<<>>, <<"">>, <<"#">>, <<"", "#", "">>, <<"x">>, <<"#", "", "@vgraph">>}

NoQuery == [pos |-> 0, first |-> "", second |-> 0]
UserAt(at, saved, edited, q) == [pc |-> at, saved |-> saved, edited |-> edited, q |-> q]

\* create_base and the derivations have filled the object
Load ==
    /\ gst = Idle
    /\ gg' \in Collections
    /\ gst' = UserAt("loaded", Idle, FALSE, NoQuery)
    /\ UNCHANGED <<pc, err, eng, aligns, seed_map, seed, inp, loc, obs, req, calls, pre, scope,
                   file, bld, pool>>

Write ==
    /\ gst.pc = "loaded"
    /\ \E so \in [DOMAIN gg.graphs -> UNION {Perms(DOMAIN gg.graphs[l].next_map) :
                                               l \in DOMAIN gg.graphs}] :
         /\ \A l \in DOMAIN gg.graphs : so[l] \in Perms(DOMAIN gg.graphs[l].next_map)
         /\ file' = write(gg, so, Ascending(DOMAIN gg.nodes))
    /\ gst' = UserAt("written", gg, FALSE, NoQuery)
    /\ UNCHANGED <<pc, err, eng, aligns, seed_map, seed, inp, loc, obs, req, calls, pre, scope,
                   gg, bld, pool>>

\* the file is edited before it is opened
Edit ==
    /\ gst.pc = "written"
    /\ ~gst.edited
    /\ \/ \E k \in DOMAIN file.nodes : file' \in {Redefined(file, k), Dropped(file, k)}
       \/ \E k \in 0 .. 2 : file' = Truncated(file, k)
       \/ \E head \in Heads : file' = [file EXCEPT !.head = head]
    /\ gst' = [gst EXCEPT !.edited = TRUE]
    /\ UNCHANGED <<pc, err, eng, aligns, seed_map, seed, inp, loc, obs, req, calls, pre, scope,
                   gg, bld, pool>>

Open ==
    /\ gst.pc = "written"
    /\ \E ref \in BOOLEAN, ndebug \in BOOLEAN :
         LET o == open(gg, file, ref, ndebug)
         IN /\ gg' = o.g
            /\ gst' = [gst EXCEPT !.pc = IF o.ok THEN "opened" ELSE o.err, !.q = NoQuery]
    /\ UNCHANGED <<pc, err, eng, aligns, seed_map, seed, inp, loc, obs, req, calls, pre, scope,
                   file, bld, pool>>

AbsolutePosition ==
    /\ gst.pc \in {"loaded", "opened"}
    /\ ~gst.edited
    /\ \E pos \in 0 .. MaxPos : gst' = [gst EXCEPT !.q = absolute_position(gg, pos)]
    /\ UNCHANGED <<pc, err, eng, aligns, seed_map, seed, inp, loc, obs, req, calls, pre, scope,
                   gg, file, bld, pool>>

NextGraphGen == Load \/ Write \/ Edit \/ Open \/ AbsolutePosition
InitGraphGen == EngineNew /\ scope = "graphgen" /\ OthersIdle
SpecGraphGen == InitGraphGen /\ [][NextGraphGen]_vars

\* open has returned or thrown on the file as write left it
Reopened == gst.pc \in {"opened", "domain_error", "invalid_argument", "abort", "no return"} /\ ~gst.edited

(***************************************************************************)
(* C12.  Opening the file that write produced for a collection yields a    *)
(* collection equal to it: the same arena (id, sequence, end_pos, allele   *)
(* frequency, pinched flag, is_ref, population of every node), the same    *)
(* order and adjacency of every graph and the same contig offsets.         *)
(***************************************************************************)
C12_WriteOpenRoundTrip ==
    Reopened =>
        /\ gst.pc = "opened"
        /\ gg.nodes = gst.saved.nodes
        /\ gg.graphs = gst.saved.graphs
        /\ gg.contigs = gst.saved.contigs

(***************************************************************************)
(* C13.  For contig offsets that start at 0 and a linear position p >= 1,  *)
(* absolute_position(p) is the contig of the greatest offset strictly      *)
(* below p, with p minus that offset: the position that equals the offset  *)
(* of the next contig is the last base of the contig before it.            *)
(***************************************************************************)
OffsetBelow(g, p) ==
    CHOOSE o \in DOMAIN g.contigs :
        o < p /\ \A o2 \in DOMAIN g.contigs : o2 < p => o2 <= o
C13_AbsolutePosition ==
    (gst # Idle /\ gst.q.pos >= 1) =>
        LET o == OffsetBelow(gg, gst.q.pos)
        IN gst.q.first = gg.contigs[o] /\ gst.q.second = gst.q.pos - o

\* the position that is the offset of the third contig was resolved to the
\* last base of the second
C13_LastBaseOfContig ==
    /\ gst # Idle
    /\ gst.q.pos = 13 /\ 13 \in DOMAIN gg.contigs
    /\ gst.q.first = "y" /\ gst.q.second = 11

(***************************************************************************)
(* C18.  open rejects a file in which a node id is defined twice or in     *)
(* which a graph's order or edges name an id without a definition: after   *)
(* an open that succeeded every node of the arena has the sequence of its  *)
(* one definition and every id a graph names is in the arena.              *)
(***************************************************************************)
DefinedIds(f) == {stoul(f.nodes[k].meta[1]) : k \in DOMAIN f.nodes}
DefinedOnce(f) ==
    \A j, k \in DOMAIN f.nodes : f.nodes[j].meta[1] = f.nodes[k].meta[1] => j = k
NamedIds(gr) ==
    ElemsOf(gr.order) \cup DOMAIN gr.next_map
        \cup UNION {ElemsOf(gr.next_map[x]) : x \in DOMAIN gr.next_map}
C18_OpenRejects ==
    (gst # Idle /\ gst.pc = "opened") =>
        /\ DefinedOnce(file)
        /\ \A k \in DOMAIN file.nodes :
              LET id == stoul(file.nodes[k].meta[1])
              IN gg.nodes[id].seq = [i \in DOMAIN file.nodes[k].seq |->
                                       base_to_num(file.nodes[k].seq[i])]
        /\ \A l \in DOMAIN gg.graphs : NamedIds(gg.graphs[l]) \subseteq DOMAIN gg.nodes

(***************************************************************************)
(* vargas sim: the task list is handed to a pool of threads; every thread  *)
(* runs main_helper_func on the indices it is given and appends the        *)
(* records of a task to the shared output under the mutex.                 *)
(***************************************************************************)
Threads == 1 .. pool.threads
Tasks == 0 .. (pool.num_tasks - 1)

\* the record a task produces at a position of its batch
Record(index, k) == [task |-> index, k |-> k]
\* sim.get_batch(num_reads, ...) with the RG tag of the task set on every record
get_batch(index, num_reads) == [k \in 1 .. num_reads |-> Record(index, k)]

Running == pool # Idle /\ pool.pc = "running"

\* a thread of the pool and what main_helper_func holds in it
Worker(at, index, results, k) == [pc |-> at, index |-> index, results |-> results, k |-> k]
Waiting == Worker("waiting", 0, <<>>, 0)

\* the mutex is taken without regard to its holder
lock_guard_absent(m) == TRUE

\* std::lock_guard<std::mutex> lock(help.m) can be constructed
lock_guard(m) == m = 0

\* sim_main: the pool, the mutex and the output are made and forpool is called
SimStart ==
    /\ pool = Idle
    /\ \E threads \in 1 .. MaxThreads, num_tasks \in 0 .. MaxTasks, num_reads \in 0 .. MaxBatch :
         pool' = [pc |-> "running", threads |-> threads, num_tasks |-> num_tasks,
                  num_reads |-> num_reads, next |-> 0, m |-> 0, out |-> <<>>,
                  runs |-> [i \in 0 .. (num_tasks - 1) |-> 0],
                  thr |-> [t \in 1 .. threads |-> Waiting]]
    /\ UNCHANGED <<pc, err, eng, aligns, seed_map, seed, inp, loc, obs, req, calls, pre, scope,
                   gg, file, gst, bld>>

\* ForPool::forpool: a thread that is free is given the next index
Dispatch(t) ==
    /\ Running /\ t \in Threads
    /\ pool.thr[t].pc = "waiting"
    /\ pool.next < pool.num_tasks
    /\ pool' = [pool EXCEPT !.next = @ + 1,
                            !.thr[t] = Worker("called", pool.next, <<>>, 0)]
    /\ UNCHANGED <<pc, err, eng, aligns, seed_map, seed, inp, loc, obs, req, calls, pre, scope,
                   gg, file, gst, bld>>

\* main_helper_func up to the block of the lock: the batch is simulated
GetBatch(t) ==
    /\ Running /\ t \in Threads
    /\ pool.thr[t].pc = "called"
    /\ pool' = [pool EXCEPT !.runs[pool.thr[t].index] = @ + 1,
                            !.thr[t] = Worker("results", @.index,
                                              get_batch(@.index, pool.num_reads), 0)]
    /\ UNCHANGED <<pc, err, eng, aligns, seed_map, seed, inp, loc, obs, req, calls, pre, scope,
                   gg, file, gst, bld>>

\* the lock_guard is constructed
Lock(t) ==
    /\ Running /\ t \in Threads
    /\ pool.thr[t].pc = "results"
    /\ lock_guard(pool.m)
    /\ pool' = [pool EXCEPT !.m = t, !.thr[t].pc = "locked", !.thr[t].k = 1]
    /\ UNCHANGED <<pc, err, eng, aligns, seed_map, seed, inp, loc, obs, req, calls, pre, scope,
                   gg, file, gst, bld>>

\* one turn of the loop: help.out.add_record(r)
AddRecord(t) ==
    /\ Running /\ t \in Threads
    /\ pool.thr[t].pc = "locked"
    /\ pool.thr[t].k <= Len(pool.thr[t].results)
    /\ pool' = [pool EXCEPT !.out = Append(@, pool.thr[t].results[pool.thr[t].k]),
                            !.thr[t].k = @ + 1]
    /\ UNCHANGED <<pc, err, eng, aligns, seed_map, seed, inp, loc, obs, req, calls, pre, scope,
                   gg, file, gst, bld>>

\* the block ends: the lock_guard is destroyed and main_helper_func returns
Unlock(t) ==
    /\ Running /\ t \in Threads
    /\ pool.thr[t].pc = "locked"
    /\ pool.thr[t].k > Len(pool.thr[t].results)
    /\ pool' = [pool EXCEPT !.m = 0, !.thr[t] = Waiting]
    /\ UNCHANGED <<pc, err, eng, aligns, seed_map, seed, inp, loc, obs, req, calls, pre, scope,
                   gg, file, gst, bld>>

\* forpool returns when every index was given out and every thread is free
Join ==
    /\ Running
    /\ pool.next = pool.num_tasks
    /\ \A t \in Threads : pool.thr[t].pc = "waiting"
    /\ pool' = [pool EXCEPT !.pc = "joined"]
    /\ UNCHANGED <<pc, err, eng, aligns, seed_map, seed, inp, loc, obs, req, calls, pre, scope,
                   gg, file, gst, bld>>

NextSim ==
    \/ SimStart
    \/ \E t \in 1 .. MaxThreads : Dispatch(t)
    \/ \E t \in 1 .. MaxThreads : GetBatch(t)
    \/ \E t \in 1 .. MaxThreads : Lock(t)
    \/ \E t \in 1 .. MaxThreads : AddRecord(t)
    \/ \E t \in 1 .. MaxThreads : Unlock(t)
    \/ Join
InitSim == EngineNew /\ scope = "sim" /\ OthersIdle
SpecSim == InitSim /\ [][NextSim]_vars

(***************************************************************************)
(* C14.  For any number of threads and any interleaving, every task is     *)
(* executed exactly once and its records are appended to the output        *)
(* exactly once, as one contiguous block in the task's record order:       *)
(* blocks of two tasks are never interleaved, and no record is lost or     *)
(* duplicated.                                                             *)
(***************************************************************************)
\* the task whose block is being appended, if any
Appending(index) ==
    pool.m # 0 /\ pool.thr[pool.m].pc = "locked" /\ pool.thr[pool.m].index = index
C14_TaskBlocks ==
    pool # Idle =>
        LET out == pool.out IN
        /\ \A index \in Tasks : pool.runs[index] <= 1
        /\ \A i, j \in DOMAIN out : out[i] = out[j] => i = j
        /\ \A i \in DOMAIN out :
              \/ out[i].k = 1
              \/ i > 1 /\ out[i - 1] = Record(out[i].task, out[i].k - 1)
        /\ \A i \in DOMAIN out :
              \/ out[i].k = pool.num_reads
              \/ i < Len(out) /\ out[i + 1] = Record(out[i].task, out[i].k + 1)
              \/ i = Len(out) /\ Appending(out[i].task)
        /\ pool.pc = "joined" =>
              /\ \A index \in Tasks : pool.runs[index] = 1
              /\ \A index \in Tasks, k \in 1 .. pool.num_reads :
                    \E i \in DOMAIN out : out[i] = Record(index, k)

\* two threads have finished three tasks of two records, and the block of
\* the second task came first
C14_BlocksOutOfTaskOrder ==
    /\ pool # Idle /\ pool.pc = "joined"
    /\ pool.threads = 2 /\ pool.num_tasks = 3 /\ pool.num_reads = 2
    /\ pool.out[1] = Record(1, 1) /\ pool.out[2] = Record(1, 2)
    /\ pool.out[3].task = 0

(***************************************************************************)
(* vargas::Graph of graph.cpp: an arena of nodes shared by a graph and the *)
(* graphs derived from it, the order of insertion, the forward and the     *)
(* reverse adjacency and the root; GraphBuilder::build and the derivations *)
(* FILTER, REF and MAXAF.                                                  *)
(***************************************************************************)
\* Graph::Node(): the next id of the counter; nothing else is set
NewNode(id) ==
    [id |-> id, seq |-> <<>>, end_pos |-> 0, is_ref |-> FALSE, af |-> AfOne,
     population |-> <<>>]
\* Graph::Node::belongs(i): a reference node belongs to every haplotype
belongs(n, i) == n.is_ref \/ (i \in DOMAIN n.population /\ n.population[i])

\* Graph(): nothing was added, and there is no root
EmptyGraph == [nodes |-> <<>>, add_order |-> <<>>, next_map |-> <<>>, prev_map |-> <<>>,
               root |-> -1]

\* add_node: a node whose id the arena has is not added; the first node
\* added is the root
add_node(g, n) ==
    IF n.id \in DOMAIN g.nodes THEN g
    ELSE [g EXCEPT !.root = IF @ < 0 THEN n.id ELSE @,
                   !.nodes = MapPut(@, n.id, n),
                   !.add_order = Append(@, n.id)]

\* add_edge: nothing is done unless the arena has both nodes
add_edge(g, n1, n2) ==
    IF n1 \notin DOMAIN g.nodes \/ n2 \notin DOMAIN g.nodes THEN g
    ELSE [g EXCEPT !.next_map = MapPut(@, n1, Append(ListAt(@, n1), n2)),
                   !.prev_map = MapPut(@, n2, Append(ListAt(@, n2), n1))]

RECURSIVE add_edges_from(_, _, _, _)
\* the inner loop of _build_edges: the edges from pID to every id of curr
add_edges_from(g, pID, curr, j) ==
    IF j > Len(curr) THEN g
    ELSE add_edges_from(add_edge(g, pID, curr[j]), pID, curr, j + 1)
RECURSIVE add_edges_all(_, _, _, _)
\* the outer loop of _build_edges
add_edges_all(g, prev, curr, i) ==
    IF i > Len(prev) THEN g
    ELSE add_edges_all(add_edges_from(g, prev[i], curr, 1), prev, curr, i + 1)

\* the state a build carries: the graph, the two lists of unconnected ids
\* and the counter of node ids
Building(g, prev, curr, newID) == [g |-> g, prev |-> prev, curr |-> curr, newID |-> newID]

\* _build_edges: every id of prev is linked to every id of curr; curr becomes prev
build_edges(b) ==
    Building(add_edges_all(b.g, b.prev, b.curr, 1), b.curr, <<>>, b.newID)

\* a node is constructed, filled, added to the graph and pushed on curr
push_node(b, n) ==
    Building(add_node(b.g, n), b.prev, Append(b.curr, n.id), b.newID + 1)

\* ifasta::subseq(chr, from, to): the bases from..to of the sequence, counted from 0
subseq(fa, from, to) == SubSeq(fa, from + 1, to + 1)

RECURSIVE build_linear_loop(_, _, _, _)
\* the loop of _build_linear: reference nodes of at most max_node_len bases
\* up to target, each linked to what was unconnected
build_linear_loop(b, pos, target, in) ==
    IF ~(pos < target) THEN [b |-> b, pos |-> pos]
    ELSE LET npos == IF pos + in.max_node_len >= target THEN target
                     ELSE pos + in.max_node_len
             n == [NewNode(b.newID) EXCEPT !.seq = subseq(in.fa, pos, npos - 1),
                                           !.end_pos = npos - 1,
                                           !.is_ref = TRUE]
         IN build_linear_loop(build_edges(push_node(b, n)), npos, target, in)
\* _build_linear: a target that is not positive stands for the end of the sequence
build_linear(b, pos, target, in) ==
    build_linear_loop(b, pos, IF target <= 0 THEN Len(in.fa) ELSE target, in)

RECURSIVE push_alts(_, _, _)
\* the loop over the alternative alleles of a record
push_alts(b, rec, i) ==
    IF i > Len(rec.alleles) THEN b
    ELSE push_alts(push_node(b, [NewNode(b.newID) EXCEPT !.is_ref = FALSE,
                                                        !.seq = rec.alleles[i],
                                                        !.af = rec.af[i],
                                                        !.population = rec.pop[i]]),
                   rec, i + 1)

\* one turn of the loop over the records
build_record(b, curr, rec, in) ==
    LET l == build_linear(b, curr, rec.pos, in)
        c == l.pos + Len(rec.alleles[1])
        refn == [NewNode(l.b.newID) EXCEPT !.end_pos = c - 1,
                                           !.seq = rec.alleles[1],
                                           !.is_ref = TRUE,
                                           !.af = rec.af[1]]
    IN [b |-> build_edges(push_alts(push_node(l.b, refn), rec, 2)), pos |-> c]

RECURSIVE build_records(_, _, _, _)
build_records(b, curr, i, in) ==
    IF i > Len(in.recs) THEN [b |-> b, pos |-> curr]
    ELSE LET r == build_record(b, curr, in.recs[i], in)
         IN build_records(r.b, r.pos, i + 1, in)

\* GraphBuilder::build: the graph, and the ids left unconnected at its end
build(in) ==
    LET r == build_records(Building(EmptyGraph, <<>>, <<>>, 0), in.lower, 1, in)
        t == build_linear(r.b, r.pos, in.upper, in)
    IN [g |-> t.b.g, frontier |-> t.b.prev]

(***************************************************************************)
(* The derivations.  The derived graph shares the arena; its edges are     *)
(* the parent's edges between included nodes, its order the parent's       *)
(* order without the nodes that are not included, its root the parent's.   *)
(***************************************************************************)
\* the nodes of the arena that belong to a haplotype of the filter
included_filter(g, filter) ==
    {id \in DOMAIN g.nodes : \E i \in DOMAIN filter : filter[i] /\ belongs(g.nodes[id], i)}
\* the reference nodes of the arena
included_ref(g) == {id \in DOMAIN g.nodes : g.nodes[id].is_ref}

RECURSIVE max_freq(_, _, _, _)
\* the successor with the greatest frequency, the first of them on a tie
max_freq(g, succ, i, maxid) ==
    IF i > Len(succ) THEN maxid
    ELSE max_freq(g, succ, i + 1,
                  IF g.nodes[succ[i]].af > g.nodes[maxid].af THEN succ[i] ELSE maxid)
RECURSIVE included_maxaf(_, _)
\* the path from curr along the successors of greatest frequency
included_maxaf(g, curr) ==
    IF curr \notin DOMAIN g.next_map THEN {curr}
    ELSE {curr} \cup included_maxaf(g, max_freq(g, g.next_map[curr], 1, g.next_map[curr][1]))

RECURSIVE maxaf_returns(_, _, _)
\* the walk of MAXAF ends: it meets no node a second time
maxaf_returns(g, curr, seen) ==
    IF curr \in seen THEN FALSE
    ELSE IF curr \notin DOMAIN g.next_map THEN TRUE
    ELSE maxaf_returns(g, max_freq(g, g.next_map[curr], 1, g.next_map[curr][1]),
                       seen \cup {curr})

\* every successor is taken
kept_targets_all(succ, includedNodes) == succ

\* the successors that are included
kept_targets(succ, includedNodes) == SelectSeq(succ, LAMBDA e : e \in includedNodes)

\* the edges of _build_derived_edges from one included node
derived_edges_of(d, g, id, includedNodes) ==
    add_edges_from(d, id, kept_targets(ListAt(g.next_map, id), includedNodes), 1)
RECURSIVE derived_edges(_, _, _, _, _)
derived_edges(d, g, ids, i, includedNodes) ==
    IF i > Len(ids) THEN d
    ELSE derived_edges(derived_edges_of(d, g, ids[i], includedNodes), g, ids, i + 1,
                       includedNodes)

\* the root is left as Graph() made it
derived_root_unset(g) == -1

\* _root = g.root()
derived_root(g) == g.root

\* the parent's order without the ids that are not included
prune(add_order, includedNodes) == SelectSeq(add_order, LAMBDA id : id \in includedNodes)

\* a derived graph, or the exception of _build_derived_edges
derive(g, includedNodes) ==
    LET d0 == [EmptyGraph EXCEPT !.nodes = g.nodes]
        d1 == derived_edges(d0, g, Ascending(includedNodes), 1, includedNodes)
    IN IF g.root \notin includedNodes
       THEN [ok |-> FALSE, err |-> "invalid_argument", g |-> g]
       ELSE [ok |-> TRUE, err |-> "none",
             g |-> [d1 EXCEPT !.root = derived_root(g),
                              !.add_order = prune(g.add_order, includedNodes)]]

\* Graph(g, MAXAF): at(root) throws for a graph without nodes, and the walk
\* does not return when it comes back to a node
derive_maxaf(g) ==
    IF g.root \notin DOMAIN g.nodes THEN [ok |-> FALSE, err |-> "out_of_range", g |-> g]
    ELSE IF ~maxaf_returns(g, g.root, {}) THEN [ok |-> FALSE, err |-> "no return", g |-> g]
    ELSE derive(g, included_maxaf(g, g.root))

(***************************************************************************)
(* The builds that are made: a reference of BuildRefLen bases, the whole   *)
(* sequence or a region inside it, at most two records in the order of     *)
(* their positions, nodes of at most two bases or of any length.           *)
(***************************************************************************)
BuildRef == [i \in 1 .. BuildRefLen |-> <<BaseA, BaseC, BaseG, BaseT>>[(i % 4) + 1]]
Regions == {[lower |-> 0, upper |-> 0], [lower |-> 1, upper |-> BuildRefLen - 1]}
RegionEnd(rg) == IF rg.upper <= 0 THEN BuildRefLen ELSE rg.upper
AltAlleles == <<<<BaseT, BaseT>>, <<>>>>
AfProfiles == {<<AfOne, HalfAf, LongAf>>, <<LongAf, HalfAf, AfOne>>, <<HalfAf, HalfAf, HalfAf>>}
AltPops == {<<<<>>, <<TRUE, FALSE>>, <<FALSE, TRUE>>>>, <<<<>>, <<FALSE, TRUE>>, <<TRUE, TRUE>>>>}
\* a record of the variant file: its position, its alleles (the reference
\* allele first), their frequencies and the haplotypes of every allele
VariantRecord(pos, ref_len, nalts, af, pop) ==
    [pos |-> pos,
     alleles |-> <<subseq(BuildRef, pos, pos + ref_len - 1)>> \o SubSeq(AltAlleles, 1, nalts),
     af |-> SubSeq(af, 1, nalts + 1),
     pop |-> SubSeq(pop, 1, nalts + 1)]
RecordShapes(rg) ==
    {sh \in [pos : rg.lower .. (RegionEnd(rg) - 1), ref_len : 1 .. 2, nalts : 1 .. 2] :
        sh.pos + sh.ref_len <= RegionEnd(rg)}
RecordLists(rg) ==
    {<<>>}
    \cup {<<VariantRecord(s.pos, s.ref_len, s.nalts, af, pop)>> :
             s \in RecordShapes(rg), af \in AfProfiles, pop \in AltPops}
    \cup {<<VariantRecord(s.s1.pos, s.s1.ref_len, s.s1.nalts, af, pop),
            VariantRecord(s.s2.pos, s.s2.ref_len, s.s2.nalts, af, pop)>> :
             s \in {p \in [s1 : RecordShapes(rg), s2 : RecordShapes(rg)] : p.s1.pos <= p.s2.pos},
             af \in AfProfiles, pop \in AltPops}
BuildInputs ==
    UNION {{[fa |-> BuildRef, lower |-> rg.lower, upper |-> rg.upper, recs |-> recs,
             max_node_len |-> mnl] : recs \in RecordLists(rg), mnl \in {2, BuildRefLen}} :
           rg \in Regions}
Filters == {<<a, b>> : a, b \in BOOLEAN}

Built(at, in, g, frontier, parent, hist, filter) ==
    [pc |-> at, in |-> in, g |-> g, frontier |-> frontier, parent |-> parent, hist |-> hist,
     filter |-> filter]
\* the derivation of a graph from the graph that is held
Derived(kind, filter, r) ==
    [bld EXCEPT !.pc = IF r.ok THEN "derived" ELSE r.err,
                !.parent = bld.g, !.g = r.g, !.hist = Append(@, kind), !.filter = filter]
CanDerive == bld # Idle /\ bld.pc \in {"built", "derived"} /\ Len(bld.hist) < MaxDerive

\* GraphBuilder::build
Build ==
    /\ bld = Idle
    /\ \E in \in BuildInputs :
         LET r == build(in)
         IN bld' = Built("built", in, r.g, r.frontier, EmptyGraph, <<>>, <<>>)
    /\ UNCHANGED <<pc, err, eng, aligns, seed_map, seed, inp, loc, obs, req, calls, pre, scope,
                   gg, file, gst, pool>>

\* Graph(g, filter)
DeriveFilter ==
    /\ CanDerive
    /\ \E filter \in Filters :
         bld' = Derived("FILTER", filter, derive(bld.g, included_filter(bld.g, filter)))
    /\ UNCHANGED <<pc, err, eng, aligns, seed_map, seed, inp, loc, obs, req, calls, pre, scope,
                   gg, file, gst, pool>>

\* Graph(g, REF)
DeriveRef ==
    /\ CanDerive
    /\ bld' = Derived("REF", <<>>, derive(bld.g, included_ref(bld.g)))
    /\ UNCHANGED <<pc, err, eng, aligns, seed_map, seed, inp, loc, obs, req, calls, pre, scope,
                   gg, file, gst, pool>>

\* Graph(g, MAXAF)
DeriveMaxAF ==
    /\ CanDerive
    /\ bld' = Derived("MAXAF", <<>>, derive_maxaf(bld.g))
    /\ UNCHANGED <<pc, err, eng, aligns, seed_map, seed, inp, loc, obs, req, calls, pre, scope,
                   gg, file, gst, pool>>

NextBuild == Build \/ DeriveFilter \/ DeriveRef \/ DeriveMaxAF
InitBuild == EngineNew /\ scope = "build" /\ OthersIdle
SpecBuild == InitBuild /\ [][NextBuild]_vars

(***************************************************************************)
(* The Graph as its callers fill it: nodes whose ids count from 0 and      *)
(* edges between any two ids, added one call at a time.                    *)
(***************************************************************************)
\* a call of add_node or add_edge and what it returned
ApiCall(name, a, b, ret) == [recs |-> <<>>, name |-> name, a |-> a, b |-> b, ret |-> ret]
\* what add_node returns: 0 for a node the arena has, the id of the node otherwise
add_node_ret(g, n) == IF n.id \in DOMAIN g.nodes THEN 0 ELSE n.id
\* what add_edge returns
add_edge_ret(g, n1, n2) == ~(n1 \notin DOMAIN g.nodes \/ n2 \notin DOMAIN g.nodes)
EdgeCount(g) == LET Sum[i \in 0 .. MaxNodeId + 1] ==
                        IF i > MaxNodeId THEN 0 ELSE Len(ListAt(g.next_map, i)) + Sum[i + 1]
                IN Sum[0]
FilledByCalls == bld # Idle /\ bld.pc = "built" /\ bld.hist = <<>> /\ bld.in.recs = <<>>
                 /\ "name" \in DOMAIN bld.in

\* Graph g;
NewGraph ==
    /\ bld = Idle
    /\ bld' = Built("built", ApiCall("Graph", 0, 0, 0), EmptyGraph, <<>>, EmptyGraph, <<>>, <<>>)
    /\ UNCHANGED <<pc, err, eng, aligns, seed_map, seed, inp, loc, obs, req, calls, pre, scope,
                   gg, file, gst, pool>>

\* g.add_node(n) for a node of any id and frequency
AddNode ==
    /\ FilledByCalls
    /\ \E id \in 0 .. MaxNodeId, af \in {HalfAf, AfOne} :
         LET n == [NewNode(id) EXCEPT !.af = af]
         IN bld' = [bld EXCEPT !.in = ApiCall("add_node", id, af, add_node_ret(bld.g, n)),
                               !.parent = bld.g,
                               !.g = add_node(bld.g, n)]
    /\ UNCHANGED <<pc, err, eng, aligns, seed_map, seed, inp, loc, obs, req, calls, pre, scope,
                   gg, file, gst, pool>>

\* g.add_edge(n1, n2) for any two ids
AddEdge ==
    /\ FilledByCalls
    /\ EdgeCount(bld.g) < MaxEdges
    /\ \E n1, n2 \in 0 .. MaxNodeId :
         bld' = [bld EXCEPT !.in = ApiCall("add_edge", n1, n2, add_edge_ret(bld.g, n1, n2)),
                            !.parent = bld.g,
                            !.g = add_edge(bld.g, n1, n2)]
    /\ UNCHANGED <<pc, err, eng, aligns, seed_map, seed, inp, loc, obs, req, calls, pre, scope,
                   gg, file, gst, pool>>

NextGraph == NewGraph \/ AddNode \/ AddEdge \/ DeriveMaxAF
InitGraph == EngineNew /\ scope = "graph" /\ OthersIdle
SpecGraph == InitGraph /\ [][NextGraph]_vars

\* the edges of a graph, and the nodes it is made of
EdgesOf(g) == UNION {{<<a, b>> : b \in ElemsOf(g.next_map[a])} : a \in DOMAIN g.next_map}
NodesOf(g) == ElemsOf(g.add_order)
OrderIndex(order, id) == CHOOSE i \in DOMAIN order : order[i] = id
\* a record begins before the end of the reference allele of the record before it
Overlapping(recs) ==
    \E i \in 2 .. Len(recs) : recs[i].pos < recs[i - 1].pos + Len(recs[i - 1].alleles[1])
LastTwo(kind) ==
    /\ bld # Idle /\ Len(bld.hist) >= 2
    /\ bld.hist[Len(bld.hist)] = kind /\ bld.hist[Len(bld.hist) - 1] = kind
Last(kind) == bld # Idle /\ Len(bld.hist) >= 1 /\ bld.hist[Len(bld.hist)] = kind

(***************************************************************************)
(* C15.  A build whose variant list has a record that overlaps the record  *)
(* before it (its position is before the build cursor) is rejected with    *)
(* an error: no graph is produced for it.                                  *)
(***************************************************************************)
C15_OverlapRejected ==
    (bld # Idle /\ Overlapping(bld.in.recs)) => bld.pc = "rejected"

(***************************************************************************)
(* C19.  In every graph build produces from records that do not overlap,   *)
(* every edge goes from a node to a node inserted after it, every node but *)
(* the root has a predecessor, and every node that is not of the final     *)
(* frontier has a successor.                                               *)
(***************************************************************************)
C19_BuildEdgesAndDegrees ==
    (bld # Idle /\ bld.hist = <<>> /\ ~Overlapping(bld.in.recs)) =>
        LET g == bld.g IN
        /\ \A e \in EdgesOf(g) :
              OrderIndex(g.add_order, e[1]) < OrderIndex(g.add_order, e[2])
        /\ \A id \in NodesOf(g) : id # g.root => \E e \in EdgesOf(g) : e[2] = id
        /\ \A id \in NodesOf(g) :
              id \notin ElemsOf(bld.frontier) => \E e \in EdgesOf(g) : e[1] = id

(***************************************************************************)
(* C16.  REF derived from a REF-derived graph, and MAXAF derived from a    *)
(* MAXAF-derived graph, succeed and have the node order, the edges and the *)
(* root of the first derivation.                                           *)
(***************************************************************************)
C16_DerivationIdempotent ==
    \A kind \in {"REF", "MAXAF"} :
        LastTwo(kind) =>
            /\ bld.pc = "derived"
            /\ bld.g.add_order = bld.parent.add_order
            /\ EdgesOf(bld.g) = EdgesOf(bld.parent)
            /\ bld.g.root = bld.parent.root

\* MAXAF was derived twice from a graph of two records, and the path goes
\* through an alternative allele
C16_MaxAfTwice ==
    /\ LastTwo("MAXAF") /\ bld.pc = "derived"
    /\ Len(bld.in.recs) = 2 /\ ~Overlapping(bld.in.recs)
    /\ Len(bld.g.add_order) < Cardinality(DOMAIN bld.g.nodes)
    /\ \E id \in NodesOf(bld.g) : ~bld.g.nodes[id].is_ref

(***************************************************************************)
(* C20.  FILTER(B) of a parent graph retains the nodes that belong to a    *)
(* haplotype selected by B: the derived order is the parent's order        *)
(* restricted to the retained nodes, the derived edges are the parent's    *)
(* edges between retained nodes, the root is the parent's root; if the     *)
(* parent's root is not retained the derivation fails with an error.       *)
(***************************************************************************)
Retained(g, B) ==
    {id \in NodesOf(g) : \E i \in DOMAIN B : B[i] /\ belongs(g.nodes[id], i)}
C20_FilterDerivation ==
    Last("FILTER") =>
        LET p == bld.parent
            R == Retained(p, bld.filter)
        IN IF p.root \in R
           THEN /\ bld.pc = "derived"
                /\ NodesOf(bld.g) = R
                /\ bld.g.add_order = SelectSeq(p.add_order, LAMBDA id : id \in R)
                /\ EdgesOf(bld.g) = {e \in EdgesOf(p) : e[1] \in R /\ e[2] \in R}
                /\ bld.g.root = p.root
           ELSE bld.pc = "invalid_argument"

\* a filter of one haplotype dropped an alternative allele of the built
\* graph and kept another
C20_FilterDropsAllele ==
    /\ Last("FILTER") /\ bld.pc = "derived" /\ Len(bld.hist) = 1
    /\ bld.filter = <<TRUE, FALSE>>
    /\ \E id \in NodesOf(bld.g) : ~bld.g.nodes[id].is_ref
    /\ \E id \in NodesOf(bld.parent) : id \notin NodesOf(bld.g)
    /\ EdgesOf(bld.g) # EdgesOf(bld.parent)

(***************************************************************************)
(* C21.  MAXAF of an acyclic parent graph ends and retains the nodes of    *)
(* one path: from the parent's root, at every step to the successor of     *)
(* greatest allele frequency (the first listed on a tie), up to a node     *)
(* without successors; in the result every node has at most one            *)
(* predecessor and at most one successor.                                  *)
(***************************************************************************)
Succs(g, id) == ElemsOf(ListAt(g.next_map, id))
Preds(g, id) == {a \in DOMAIN g.next_map : id \in ElemsOf(g.next_map[a])}
RECURSIVE Reachable(_, _, _)
Reachable(g, S, k) ==
    IF k = 0 THEN S ELSE Reachable(g, S \cup UNION {Succs(g, x) : x \in S}, k - 1)
Acyclic(g) ==
    \A id \in DOMAIN g.nodes :
        id \notin Reachable(g, Succs(g, id), Cardinality(DOMAIN g.nodes))
\* the first listed of the successors of greatest frequency
GreatestFirst(g, id) ==
    LET succ == g.next_map[id]
        j == CHOOSE i \in DOMAIN succ :
                 /\ \A k \in DOMAIN succ : g.nodes[succ[k]].af <= g.nodes[succ[i]].af
                 /\ \A k \in 1 .. (i - 1) : g.nodes[succ[k]].af < g.nodes[succ[i]].af
    IN succ[j]
RECURSIVE GreatestPath(_, _)
GreatestPath(g, id) ==
    IF Succs(g, id) = {} THEN {id} ELSE {id} \cup GreatestPath(g, GreatestFirst(g, id))
C21_MaxAfLinearPath ==
    (Last("MAXAF") /\ bld.parent.root \in DOMAIN bld.parent.nodes /\ Acyclic(bld.parent)) =>
        /\ bld.pc = "derived"
        /\ NodesOf(bld.g) = GreatestPath(bld.parent, bld.parent.root)
        /\ \A id \in NodesOf(bld.g) :
              Cardinality(Succs(bld.g, id)) <= 1 /\ Cardinality(Preds(bld.g, id)) <= 1

(***************************************************************************)
(* C28.  After any calls of add_node and add_edge: no id is twice in the   *)
(* insertion order; the root is the first node added; next and prev        *)
(* mirror each other with multiplicity; add_edge with an endpoint that is  *)
(* not in the arena returns false and changes nothing; add_node with an id *)
(* of the arena changes nothing and returns a value that a successful      *)
(* insertion of that node does not return.                                 *)
(***************************************************************************)
Count(lst, x) == Cardinality({i \in DOMAIN lst : lst[i] = x})
C28_GraphCalls ==
    FilledByCalls =>
        LET g == bld.g
            p == bld.parent
            c == bld.in
        IN /\ \A i, j \in DOMAIN g.add_order : g.add_order[i] = g.add_order[j] => i = j
           /\ g.root = IF g.add_order = <<>> THEN -1 ELSE g.add_order[1]
           /\ \A u, v \in 0 .. MaxNodeId :
                 Count(ListAt(g.next_map, u), v) = Count(ListAt(g.prev_map, v), u)
           /\ (c.name = "add_edge" /\ (c.a \notin DOMAIN p.nodes \/ c.b \notin DOMAIN p.nodes))
                 => (c.ret = FALSE /\ g = p)
           /\ (c.name = "add_node" /\ c.a \in DOMAIN p.nodes) => (g = p /\ c.ret # c.a)

(***************************************************************************)
(* C29.  open ends on every file: on an empty file and on a file of empty  *)
(* lines and comments it throws the error of a file that is not a graph    *)
(* file, and on a file cut off after a section it returns or fails once    *)
(* the input is exhausted.                                                 *)
(***************************************************************************)
OpenCalled == gst # Idle /\ gst.pc \notin {"loaded", "written"}
NoGraphLine(f) == \A i \in DOMAIN f.head : f.head[i] \in {"", "#"}
C29_OpenEnds ==
    OpenCalled =>
        /\ gst.pc # "no return"
        /\ NoGraphLine(file) => gst.pc = "invalid_argument"

(***************************************************************************)
(* The query profile of a packed group.                                    *)
(***************************************************************************)
\* the query profile holds the packing of a group: a strand pass is under way
Packed == pc \in {"node", "cell"}
\* the read of lane l of the current group, or <<>> when the lane is unused
LaneRead(l) ==
    LET r == BegOffset(loc.group) + l IN
    IF r < Len(inp.read_group) THEN inp.read_group[r + 1] ELSE <<>>
\* the quality of the base of lane l that lies at row i, 0 without qualities
LaneHasQual(l) ==
    ~(inp.quals = <<>> \/ inp.quals[BegOffset(loc.group) + l + 1] = <<>>)
\* the index in its read of the base at row i of lane l, on the current strand
BaseIndex(l, i) ==
    LET m == Len(LaneRead(l))
        k == i - (eng.read_len - m)
    IN IF loc.rev THEN m - k ELSE k + 1
BaseAtRow(l, i) ==
    LET x == LaneRead(l)[BaseIndex(l, i)] IN IF loc.rev THEN complement_b(x) ELSE x
QualAtRow(l, i) ==
    IF LaneHasQual(l) THEN inp.quals[BegOffset(loc.group) + l + 1][BaseIndex(l, i)] ELSE 0

\* C24: after a group is packed, for every read of length m < read_len in
\* lane j the padding rows i < read_len - m hold 0 for every reference base
\* A, C, G, T, N, and the bases of the read occupy the rows read_len - m ..
\* read_len - 1 of the lane, on both strands and in every group
C24_PaddingRowsZero ==
    Packed =>
      \A l \in LaneSet :
        LaneRead(l) # <<>> =>
          LET pos == eng.read_len - Len(LaneRead(l)) IN
          /\ \A i \in 0 .. (pos - 1) : \A b \in 0 .. 4 : eng.query_prof[i][b][l] = 0
          /\ \A i \in pos .. (eng.read_len - 1) : \A b \in 0 .. 4 :
                eng.query_prof[i][b][l] =
                    SubstScore(eng.width, eng.prof, BaseAtRow(l, i), b,
                               LaneHasQual(l), QualAtRow(l, i))


\* the score the scoring rule gives read base x of quality q against b
RuleScore(prof, x, b, hasq, q) ==
    IF x = BaseN \/ b = BaseN THEN 0 - prof.ambig
    ELSE IF x = b THEN prof.match
    ELSE IF ~hasq THEN 0 - prof.mismatch_max
    ELSE 0 - (prof.mismatch_min
                + (((prof.mismatch_max - prof.mismatch_min) * Min2(q, 40)) \div 40))

\* C25: at every non-padding row the packed score of read base x of quality
\* q against reference base b is +match when x = b are both of A, C, G, T,
\* -ambig when x or b is N, and else -penalty(q), or -mismatch_max without
\* qualities; on the reverse strand each base is complemented and keeps its
\* own quality, so that the reverse packing of a read is the forward packing
\* of its reverse complement with the qualities reversed
C25_SubstitutionScores ==
    Packed =>
      /\ \A l \in LaneSet :
           LaneRead(l) # <<>> =>
             \A i \in (eng.read_len - Len(LaneRead(l))) .. (eng.read_len - 1) :
               \A b \in 0 .. 4 :
                 eng.query_prof[i][b][l] =
                     RuleScore(eng.prof, BaseAtRow(l, i), b, LaneHasQual(l), QualAtRow(l, i))
      /\ (loc.rev /\ Len(inp.read_group) = 1) =>
           eng.query_prof =
               package_reads(eng, <<RevComp(inp.read_group[1])>>,
                             IF inp.quals = <<>> THEN <<>> ELSE <<Reverse(inp.quals[1])>>,
                             FALSE, 0, 1, loc.flat).query_prof

\* C30: for every profile that set_scores accepts for a cell of w bits, the
\* lanes of the match bonus, of the mismatch and ambiguity penalties and of
\* the gap extend and gap open + extend penalties hold the integer values
\* of the profile, not wrapped by the narrowing to w bits; so a gap or
\* mismatch penalty never raises a cell and the match bonus never lowers one
C30_LanesHoldProfile ==
    (pc = "ready" /\ err = "none") =>
      LET w == eng.width
          prof == eng.prof
      IN /\ eng.gap_extend_vec_rd = Broadcast(prof.read_gext)
         /\ eng.gap_extend_vec_ref = Broadcast(prof.ref_gext)
         /\ eng.gap_open_extend_vec_rd = Broadcast(prof.read_gopen + prof.read_gext)
         /\ eng.gap_open_extend_vec_ref = Broadcast(prof.ref_gopen + prof.ref_gext)
         /\ SubstScore(w, prof, BaseA, BaseA, FALSE, 0) = prof.match
         /\ SubstScore(w, prof, BaseA, BaseT, FALSE, 0) = 0 - prof.mismatch_max
         /\ \A q \in QualAlphabet :
               SubstScore(w, prof, BaseA, BaseT, TRUE, q) = 0 - penalty(prof, q)
         /\ SubstScore(w, prof, BaseN, BaseA, FALSE, 0) = 0 - prof.ambig
         /\ \A l \in LaneSet :
               /\ eng.gap_extend_vec_rd[l] >= 0
               /\ eng.gap_open_extend_vec_rd[l] >= 0
               /\ eng.gap_extend_vec_ref[l] >= 0
               /\ eng.gap_open_extend_vec_ref[l] >= 0
         /\ SubstScore(w, prof, BaseA, BaseA, FALSE, 0) >= 0
         /\ SubstScore(w, prof, BaseA, BaseT, FALSE, 0) <= 0


(***************************************************************************)
(* The seed table during a traversal.                                      *)
(***************************************************************************)
\* the nodes of the current strand pass that have been processed
Processed == 1 .. (loc.gi - 1)
\* the index of the most recent pinch point among them, or of the first node
LastPinch ==
    LET ps == {j \in Processed : inp.graph[j].pinched} IN
    IF ps = {} THEN 1 ELSE CHOOSE j \in ps : \A k \in ps : k <= j
\* a node of the pass has just been processed
AfterNode == pc = "node" /\ loc.gi > 1

\* C22: right after a pinch point v is processed the seed table holds the
\* seed of v and no seed of a node processed before v; after a node that is
\* not a pinch point it holds the seeds of exactly the nodes processed since
\* and including the most recent pinch point; the table is empty at the
\* start of each strand pass of each group
C22_SeedTable ==
    /\ (pc = "node" /\ loc.gi = 1) => seed_map = <<>>
    /\ AfterNode =>
          LET v == inp.graph[loc.gi - 1] IN
          /\ DOMAIN seed_map = {inp.graph[j].id : j \in LastPinch .. (loc.gi - 1)}
          /\ v.pinched => DOMAIN seed_map = {v.id}
          /\ v.seq # <<>> => seed_map[v.id] = node_seed(eng)

\* the second node of a chain, a pinch point, has been processed on the
\* reverse strand: the seed of the first node is gone
C22_AfterPinchPoint ==
    /\ AfterNode
    /\ loc.rev
    /\ loc.gi = 3
    /\ inp.graph[2].pinched
    /\ DOMAIN seed_map = {1}

\* the second node is not a pinch point: the table holds the first two seeds
C22_SinceTheStart ==
    /\ AfterNode
    /\ loc.gi = 3
    /\ ~inp.graph[2].pinched
    /\ DOMAIN seed_map = {0, 1}


(***************************************************************************)
(* The waiting submax.                                                     *)
(***************************************************************************)
DefaultMode == ~eng.msonly /\ ~eng.maxonly
\* lane l holds a waiting candidate
HasWaiting(l) ==
    /\ aligns.waiting_pos[BegOffset(loc.group) + l] > 0
    /\ eng.waiting_score[l] > eng.sub_score[l]
\* the step is a cell handed to _fill_cell_finish; its score in lane l
CellStep == pc = "cell" /\ Observed(eng, loc.row) /\ DefaultMode
CellScore(l) == eng'.S[loc.row][l]
\* the step is the final pass after the traversal of a strand
FinalStep == pc = "node" /\ loc.gi > Len(inp.graph) /\ DefaultMode
\* the sub list of lane l as the final pass reports it
FinalSubList(l) ==
    LET i == BegOffset(loc.group) + l IN
    IF loc.rev THEN aligns'.sub_pos_list_rev[i] ELSE aligns'.sub_pos_list_fwd[i]

\* the step of a cell below the max that changes the sub is the commit of
\* the candidate: one exists, the cell lies more than 2 * read_len beyond
\* its last occurrence, and its score is above the sub and below the max
CommitInCell(l) ==
    LET i == BegOffset(loc.group) + l IN
    (CellScore(l) < eng.max_score[l] /\ eng'.sub_score[l] # eng.sub_score[l]) =>
        /\ HasWaiting(l)
        /\ loc.curr_pos > aligns.waiting_last_pos[i] + (2 * eng.read_len)
        /\ eng.waiting_score[l] > eng.sub_score[l]
        /\ eng.waiting_score[l] < eng.max_score[l]
        /\ eng'.sub_score[l] = eng.waiting_score[l]
        /\ eng'.sub_pos_list[l] = <<aligns.waiting_pos[i]>>
        /\ aligns'.waiting_pos[i] = 0
\* a cell at or above the max discards the candidate and commits nothing
DiscardInCell(l) ==
    LET i == BegOffset(loc.group) + l IN
    (CellScore(l) >= eng.max_score[l] /\ HasWaiting(l)) =>
        /\ aligns'.waiting_pos[i] = 0
        /\ eng'.waiting_score[l] = eng'.sub_score[l]
        /\ eng'.sub_score[l] # eng.waiting_score[l]
\* the final pass changes the sub only by the commit of a candidate
CommitInFinal(l) ==
    LET i == BegOffset(loc.group) + l IN
    eng'.sub_score[l] # eng.sub_score[l] =>
        /\ HasWaiting(l)
        /\ eng.waiting_score[l] < eng.max_score[l]
        /\ eng'.sub_score[l] = eng.waiting_score[l]
        /\ i < Len(inp.read_group) => FinalSubList(l) = <<aligns.waiting_pos[i]>>

\* C23: in default mode a waiting candidate becomes the reported sub, with
\* sub_pos_list = [waiting_pos], only at a cell more than 2 * read_len
\* beyond its last occurrence or in the final pass after the traversal; a
\* cell at or above max_score before that discards it without a commit;
\* and a committed candidate is strictly above the sub_score and strictly
\* below the max_score
C23_WaitingCommit ==
    [][/\ CellStep => \A l \in LaneSet : CommitInCell(l) /\ DiscardInCell(l)
       /\ FinalStep => \A l \in LaneSet : CommitInFinal(l)]_vars


\* a candidate seen after the max has been committed by a later cell of the
\* forward traversal: the sub position lies beyond the max position, the
\* candidate is gone, and the final pass has not run yet
C23_CommittedByLaterCell ==
    /\ pc \in {"cell", "node"}
    /\ DefaultMode
    /\ ~loc.rev
    /\ eng.max_pos_list[0] # <<>>
    /\ eng.sub_pos_list[0] # <<>>
    /\ eng.sub_pos_list[0][1] > eng.max_pos_list[0][1]
    /\ eng.sub_score[0] > NativeMin(eng.width)
    /\ eng.sub_score[0] < eng.max_score[0]
    /\ aligns.waiting_pos[0] = 0


\* C27: default mode, forward only, at the end of align_into: for every read
\* whose reported sub_score is defined (above the value that stands for no
\* sub) sub_pos_list is not empty, also after a tail removal has emptied it,
\* and each of its positions is one where a cell of score sub_score was
\* observed
C27_SubPositionsRecorded ==
    (Returned /\ inp.fwdonly /\ DefaultMode) =>
        \A i \in Reads :
            aligns.sub_score[i] # Undefined =>
                /\ aligns.sub_pos_list_fwd[i] # <<>>
                /\ \A p \in ElemsOf(aligns.sub_pos_list_fwd[i]) :
                       aligns.sub_score[i] \in ScoresAt(i, FALSE, p)


(***************************************************************************)
(* The modes of the engine.                                                *)
(***************************************************************************)
\* the call made by a new engine of the default mode into a new packet
DefaultCall == align([CtorOf(eng) EXCEPT !.msonly = FALSE, !.maxonly = FALSE], inp)
NoPositions(al) ==
    \A i \in DOMAIN al.max_score :
        /\ al.max_pos_list_fwd[i] = <<>> /\ al.max_pos_list_rev[i] = <<>>
        /\ al.sub_pos_list_fwd[i] = <<>> /\ al.sub_pos_list_rev[i] = <<>>

\* C26: the max_score of an MSONLY and of an MAXONLY engine is the one of
\* the default mode, the max position lists of an MAXONLY engine are those
\* of the default mode, and an MSONLY engine completes with empty position
\* lists and reads no list or position array that was not sized for the
\* batch
C26_ModesAgree ==
    (eng.msonly \/ eng.maxonly) =>
        /\ eng.msonly => (~loc.undef /\ err # "undefined")
        /\ Returned =>
              LET d == DefaultCall IN
              /\ d.ok
              /\ aligns.max_score = d.al.max_score
              /\ eng.maxonly =>
                    /\ aligns.max_pos_list_fwd = d.al.max_pos_list_fwd
                    /\ aligns.max_pos_list_rev = d.al.max_pos_list_rev
              /\ eng.msonly => NoPositions(aligns)


====
